---- MODULE Spec2Model ----
(***************************************************************************)
(* Model of the design-critique analysis engine                            *)
(* (haasonsaas/design-critique-mcp): the colour, accessibility,            *)
(* typography and composition analyzers and the tool handlers calling them.*)
(*                                                                         *)
(* The analyzers are stateless, so the state of the model is the call in   *)
(* flight: the operation last invoked, its input and what it returned.     *)
(*                                                                         *)
(* Number representation.  The code computes in IEEE doubles; the model    *)
(* uses integers:                                                          *)
(*   - a colour string "#rrggbb" is the tuple <<r, g, b>> of its channel   *)
(*     bytes; a string chroma-js cannot parse is the empty tuple <<>>;     *)
(*   - relative luminance is in units of 1/10000, a contrast ratio in      *)
(*     units of 1/1000 (21000 is 21:1);                                    *)
(*   - a hue is in whole degrees (exact for the colours of the model,      *)
(*     whose channels are multiples of 51), NaN is the value NaN;          *)
(*   - a score that the code rounds is rounded as Math.round does          *)
(*     (half up) on the exact rational.                                    *)
(***************************************************************************)
EXTENDS Integers, Sequences, FiniteSets

VARIABLES
    colorOp,     \* colour / contrast operation last invoked ("none" at start)
    colorIn,     \* its arguments
    colorOut,    \* what it returned
    accPrev,     \* summary of the analyzeAccessibility call before the last one
    typoPhase,   \* analyzeTypography: "idle" or "done"
    typoIn,      \* the OCR outcome analyzeTypography works on
    typoOut,     \* the TypographyAnalysis it returned
    compPc,      \* analyzeComposition: the step it is about to take
    compIn,      \* the decoded image and design type it was called with
    compLocals,  \* its local variables assigned so far
    compOut,     \* the LayoutAnalysis it returned
    critPc,      \* critique_design: the step handleCritiqueDesign is about to take
    critIn,      \* the request it was called with
    critResults, \* the promise of each analysis: its value once fulfilled
    critOrder,   \* the analyses in the order their promises were fulfilled
    critOut      \* the response of the handler

colorVars == <<colorOp, colorIn, colorOut, accPrev>>
typoVars == <<typoPhase, typoIn, typoOut>>

compVars == <<compPc, compIn, compLocals, compOut>>

critVars == <<critPc, critIn, critResults, critOrder, critOut>>

vars == <<colorVars, typoVars, compVars, critVars>>

(***************************************************************************)
(* Bounds of the model                                                     *)
(***************************************************************************)
MaxPalette == 3      \* longest palette handed to analyzeColorHarmony
MaxSamples == 3      \* most pixels the stride-20 scan of extractDominantColors visits
MaxWords == 4        \* most words the OCR step reports
MaxSmallDim == 12    \* uniform rasters have every width and height up to this
LargeDim == 64       \* width and height of the rasters with lines
MaxSpin == 2         \* iterations followed of a sampling loop that never ends
MaxCount == 4        \* extractPalette is asked for every colorCount up to this, and for 8
MaxPixels == 24      \* most pixels of a raster whose raw bytes are sampled
MaxLines == 4        \* most detected lines handed to filterCloseLines on its own

(***************************************************************************)
(* Generic helpers                                                         *)
(***************************************************************************)
Abs(x) == IF x < 0 THEN -x ELSE x
Min2(a, b) == IF a < b THEN a ELSE b
Max2(a, b) == IF a > b THEN a ELSE b
SeqsUpTo(S, n) == UNION {[1..k -> S] : k \in 0..n}
SeqMax(s) == CHOOSE m \in {s[i] : i \in 1..Len(s)} : \A i \in 1..Len(s) : s[i] <= m
SeqMin(s) == CHOOSE m \in {s[i] : i \in 1..Len(s)} : \A i \in 1..Len(s) : s[i] >= m
NoValue == [none |-> TRUE]

(***************************************************************************)
(* Colours and the chroma-js primitives the analyzers call                 *)
(***************************************************************************)
Black  == <<0, 0, 0>>
White  == <<255, 255, 255>>
Red    == <<255, 0, 0>>
Cyan   == <<0, 255, 255>>
Green  == <<0, 255, 0>>
Blue   == <<0, 0, 255>>
Orange == <<255, 153, 0>>
Grey40 == <<102, 102, 102>>
Teal185 == <<0, 55, 60>>     \* hue 185
Unparsable == <<>>

HexColors == {Black, White, Red, Cyan, Green, Blue, Orange, Grey40, Teal185}
ColorStrings == HexColors \cup {Unparsable}

NaN == -1

\* chroma(c): throws on a string it cannot parse.
ChromaParses(c) == Len(c) = 3

\* sRGB channel byte -> linear light, in 1/10000 (chroma-js luminance_x):
\* x/255 <= 0.03928 ? x/12.92 : ((x+0.055)/1.055)^2.4
LuminanceX(v) ==
    CASE v = 0   -> 0
      [] v = 51  -> 331
      [] v = 55  -> 382
      [] v = 60  -> 452
      [] v = 102 -> 1329
      [] v = 153 -> 3185
      [] v = 204 -> 6038
      [] v = 255 -> 10000

\* chroma(c).luminance(): 0.2126 R + 0.7152 G + 0.0722 B, in 1/10000.
Luminance(c) ==
    (2126 * LuminanceX(c[1]) + 7152 * LuminanceX(c[2]) + 722 * LuminanceX(c[3])) \div 10000

ChromaContrast_Unordered(c1, c2) ==
    ((Luminance(c1) + 500) * 1000) \div (Luminance(c2) + 500)

\* chroma.contrast(a, b): l1 > l2 ? (l1+0.05)/(l2+0.05) : (l2+0.05)/(l1+0.05),
\* in 1/1000.  Both arguments parse.
ChromaContrast(c1, c2) ==
    LET l1 == Luminance(c1)
        l2 == Luminance(c2)
    IN  IF l1 > l2 THEN ((l1 + 500) * 1000) \div (l2 + 500)
                   ELSE ((l2 + 500) * 1000) \div (l1 + 500)

\* chroma(c).get('hsl.h'): NaN for an achromatic colour, else the hue in
\* degrees, [0, 360).
HslHue(c) ==
    LET r == c[1]
        g == c[2]
        b == c[3]
        max == Max2(r, Max2(g, b))
        min == Min2(r, Min2(g, b))
        d == max - min
        h == IF r = max THEN (60 * (g - b)) \div d
             ELSE IF g = max THEN 120 + (60 * (b - r)) \div d
             ELSE 240 + (60 * (r - g)) \div d
    IN  IF max = min THEN NaN
        ELSE IF h < 0 THEN h + 360 ELSE h

(***************************************************************************)
(* ColorAnalyzer (color-analyzer.ts)                                       *)
(***************************************************************************)
\* colors.map(c => { try { return chroma(c) } catch { return chroma('#000000') } })
colorObjects(colors) ==
    [i \in 1..Len(colors) |-> IF ChromaParses(colors[i]) THEN colors[i] ELSE Black]

\* c.get('hsl.h') || 0
HueOrZero(c) == IF HslHue(c) = NaN THEN 0 ELSE HslHue(c)

InsufficientColors_Off(colors) == Len(colors) < 1

\* colors.length < 2
InsufficientColors(colors) == Len(colors) < 2

IsComplementaryDiff_Narrow(hueDiff) == hueDiff > 170 /\ hueDiff < 180

\* hueDiff > 170 && hueDiff < 190
IsComplementaryDiff(hueDiff) == hueDiff > 170 /\ hueDiff < 190

\* the double loop over i < j counting complementary pairs
complementaryScore(hues) ==
    Cardinality({p \in (1..Len(hues)) \X (1..Len(hues)) :
                    /\ p[1] < p[2]
                    /\ IsComplementaryDiff(Abs(hues[p[1]] - hues[p[2]]))})

IsTriad(h1, h2, h3) ==
    LET lo == Min2(h1, Min2(h2, h3))
        hi == Max2(h1, Max2(h2, h3))
        mid == h1 + h2 + h3 - lo - hi
        diff1 == mid - lo
        diff2 == hi - mid
        diff3 == (360 - hi) + lo
    IN  Abs(diff1 - 120) < 30 /\ Abs(diff2 - 120) < 30 /\ Abs(diff3 - 120) < 30

checkTriadicHarmony(hues) ==
    Cardinality({t \in (1..Len(hues)) \X (1..Len(hues)) \X (1..Len(hues)) :
                    /\ t[1] < t[2]
                    /\ t[2] < t[3]
                    /\ IsTriad(hues[t[1]], hues[t[2]], hues[t[3]])})

analyzeColorHarmony_TriadicFirst(colors) ==
    IF InsufficientColors(colors)
    THEN [harmony_type |-> "insufficient_colors", score |-> 0]
    ELSE LET objs == colorObjects(colors)
             hues == [i \in 1..Len(objs) |-> HueOrZero(objs[i])]
             compScore == complementaryScore(hues)
             hueRange == SeqMax(hues) - SeqMin(hues)
             triadicScore == checkTriadicHarmony(hues)
         IN  IF triadicScore > 0
             THEN [harmony_type |-> "triadic",
                   score |-> Min2(80 + triadicScore * 5, 100)]
             ELSE IF compScore > 0
             THEN [harmony_type |-> "complementary",
                   score |-> Min2(85 + compScore * 5, 100)]
             ELSE IF hueRange < 60
             THEN [harmony_type |-> "analogous", score |-> 80]
             ELSE IF hueRange < 120
             THEN [harmony_type |-> "split_complementary", score |-> 70]
             ELSE [harmony_type |-> "mixed", score |-> 60]

\* the if / else if chain: complementary, triadic, analogous,
\* split_complementary, mixed
analyzeColorHarmony(colors) ==
    IF InsufficientColors(colors)
    THEN [harmony_type |-> "insufficient_colors", score |-> 0]
    ELSE LET objs == colorObjects(colors)
             hues == [i \in 1..Len(objs) |-> HueOrZero(objs[i])]
             compScore == complementaryScore(hues)
             hueRange == SeqMax(hues) - SeqMin(hues)
             triadicScore == checkTriadicHarmony(hues)
         IN  IF compScore > 0
             THEN [harmony_type |-> "complementary",
                   score |-> Min2(85 + compScore * 5, 100)]
             ELSE IF triadicScore > 0
             THEN [harmony_type |-> "triadic",
                   score |-> Min2(80 + triadicScore * 5, 100)]
             ELSE IF hueRange < 60
             THEN [harmony_type |-> "analogous", score |-> 80]
             ELSE IF hueRange < 120
             THEN [harmony_type |-> "split_complementary", score |-> 70]
             ELSE [harmony_type |-> "mixed", score |-> 60]

\* try { chroma.contrast(chroma(fg), chroma(bg)) } catch { return 1 }
calculateContrast(foreground, background) ==
    IF ChromaParses(foreground) /\ ChromaParses(background)
    THEN ChromaContrast(foreground, background)
    ELSE 1000

PassesAA_AsAAA(ratio) == ratio >= 7000

\* ratio >= 4.5
PassesAA(ratio) == ratio >= 4500
\* ratio >= 7
PassesAAA(ratio) == ratio >= 7000

checkAccessibility(foreground, background) ==
    LET ratio == calculateContrast(foreground, background)
        wcag_aa == PassesAA(ratio)
        wcag_aaa == PassesAAA(ratio)
    IN  [contrast_ratio |-> ratio,
         wcag_aa |-> wcag_aa,
         wcag_aaa |-> wcag_aaa,
         wcag_level |-> IF wcag_aaa THEN "AAA" ELSE IF wcag_aa THEN "AA" ELSE "fail"]

(***************************************************************************)
(* ColorAnalyzer.extractPalette and analyzeColors                          *)
(*                                                                         *)
(* Vibrant.from(buffer).getPalette() and sharp(buffer).raw() are library   *)
(* results.  A buffer is what the two give for it: whether getPalette      *)
(* threw and otherwise the hex of the swatches present, in the order       *)
(* Vibrant, Muted, DarkVibrant, DarkMuted, LightVibrant, LightMuted;       *)
(* whether raw() threw and otherwise the pixels of the raw data.  A hex    *)
(* string is the colour it writes, so two hex strings are equal exactly    *)
(* when the colours are.  A pixel whose channels chroma rejects is         *)
(* Unparsable.                                                             *)
(***************************************************************************)
Grey20 == <<51, 51, 51>>
Grey60 == <<153, 153, 153>>
Grey80 == <<204, 204, 204>>

DefaultColorCount == 8   \* colorCount: number = 8
SampleStride == 10       \* i += 30: 3 channels * 10 pixels

\* array.slice(0, end)
Slice(s, end) ==
    LET stop == IF end < 0 THEN Max2(Len(s) + end, 0) ELSE Min2(end, Len(s))
    IN  SubSeq(s, 1, stop)

\* the pixels read by for (i = 0; i < data.length; i += 30)
SampledPixels(data) ==
    [k \in 1..((Len(data) + SampleStride - 1) \div SampleStride) |->
        data[(k - 1) * SampleStride + 1]]

\* the keys of colorMap in insertion order: each colour chroma accepts, at
\* its first occurrence
RECURSIVE ColorMapKeys(_)
ColorMapKeys(samples) ==
    IF samples = <<>> THEN <<>>
    ELSE LET keys == ColorMapKeys(SubSeq(samples, 1, Len(samples) - 1))
             color == samples[Len(samples)]
         IN  IF ~ChromaParses(color) \/ \E i \in 1..Len(keys) : keys[i] = color
             THEN keys
             ELSE Append(keys, color)

\* colorMap.get(color)
ColorFrequency(samples, color) ==
    Cardinality({i \in 1..Len(samples) : samples[i] = color})

\* Array.from(colorMap.entries()).sort((a, b) => b[1] - a[1]): the sort is
\* stable, equal counts keep the insertion order
SortByFrequency(samples) ==
    LET keys == ColorMapKeys(samples)
        count(i) == ColorFrequency(samples, keys[i])
        rank(i) == 1 + Cardinality({j \in 1..Len(keys) :
                                       \/ count(j) > count(i)
                                       \/ count(j) = count(i) /\ j < i})
    IN  [p \in 1..Len(keys) |-> keys[CHOOSE i \in 1..Len(keys) : rank(i) = p]]

extractColorsFromRawData(data, colorCount) ==
    LET sortedColors == Slice(SortByFrequency(SampledPixels(data)), colorCount)
    IN  IF Len(sortedColors) > 0 THEN sortedColors ELSE <<Black, White>>

\* The bytes sharp(...).raw() hands over: the pixels row by row, `channels`
\* bytes each (3 without alpha, 4 with).  A pixel is <<r, g, b, a>>.
RawBytes(pixels, channels) ==
    [k \in 1..(channels * Len(pixels)) |->
        pixels[((k - 1) \div channels) + 1][((k - 1) % channels) + 1]]

ByteStride == 30         \* i += 30

\* data[i] of a Buffer: undefined at and past data.length
Undefined == -1
ByteAt(data, i) == IF i < Len(data) THEN data[i + 1] ELSE Undefined

\* the values of i in for (i = 0; i < data.length; i += 30)
SampleOffsets(data) ==
    [k \in 1..((Len(data) + ByteStride - 1) \div ByteStride) |-> (k - 1) * ByteStride]

\* [r, g, b] = [data[i], data[i + 1], data[i + 2]] at each offset
SampledTriples(data) ==
    LET offsets == SampleOffsets(data)
    IN  [k \in 1..Len(offsets) |->
            <<ByteAt(data, offsets[k]), ByteAt(data, offsets[k] + 1),
              ByteAt(data, offsets[k] + 2)>>]

\* extractColorsFromRawData on bytes.  What chroma makes of a triple holding
\* undefined is not fixed by the repository: the triple is either skipped by
\* the catch or counted.
PaletteOfBytes(data, colorCount, undefinedSkipped) ==
    LET triples == SampledTriples(data)
        colorOf(t) == IF undefinedSkipped /\ \E c \in 1..3 : t[c] = Undefined
                      THEN Unparsable
                      ELSE t
        samples == [k \in 1..Len(triples) |-> colorOf(triples[k])]
        sortedColors == Slice(SortByFrequency(samples), colorCount)
    IN  IF Len(sortedColors) > 0 THEN sortedColors ELSE <<Black, White>>

extractAdditionalColors(raw, count) ==
    IF raw.throws THEN <<>> ELSE extractColorsFromRawData(raw.data, count)

GreyRamp == <<Black, Grey20, Grey40, Grey60, Grey80, White>>

extractColorsFromSharp(raw, colorCount) ==
    IF raw.throws
    THEN Slice(GreyRamp, colorCount)
    ELSE extractColorsFromRawData(raw.data, colorCount)

\* colors after the "if we need more colors" step, before the final slice
CompletedColors(imageBuffer, colorCount) ==
    LET colors == imageBuffer.vibrant.swatches
    IN  IF Len(colors) < colorCount
        THEN colors \o extractAdditionalColors(imageBuffer.raw, colorCount - Len(colors))
        ELSE colors

extractPalette(imageBuffer, colorCount) ==
    IF imageBuffer.vibrant.throws
    THEN extractColorsFromSharp(imageBuffer.raw, colorCount)
    ELSE Slice(CompletedColors(imageBuffer, colorCount), colorCount)

\* the pairs (i, j) of the contrast loops, in loop order (1-based)
ContrastPairs_Neighbours == <<<<1, 2>>, <<2, 3>>, <<3, 4>>>>

ContrastPairs == <<<<1, 2>>, <<1, 3>>, <<1, 4>>, <<2, 3>>, <<2, 4>>, <<3, 4>>>>

analyzeColors(imageBuffer) ==
    LET palette == extractPalette(imageBuffer, DefaultColorCount)
        harmony == analyzeColorHarmony(palette)
        Reported(p) ==
            /\ p[1] <= Min2(Len(palette) - 1, 3)
            /\ p[2] <= Min2(Len(palette), 4)
            /\ ~checkAccessibility(palette[p[1]], palette[p[2]]).wcag_aa
        issue(p) ==
            LET accessibility == checkAccessibility(palette[p[1]], palette[p[2]])
            IN  [foreground |-> palette[p[1]],
                 background |-> palette[p[2]],
                 contrast_ratio |-> accessibility.contrast_ratio,
                 wcag_level |-> accessibility.wcag_level]
        failing == SelectSeq(ContrastPairs, Reported)
    IN  [palette |-> palette,
         harmony_score |-> harmony.score,
         harmony_type |-> harmony.harmony_type,
         contrast_issues |-> [k \in 1..Len(failing) |-> issue(failing[k])]]

(***************************************************************************)
(* AccessibilityAnalyzer.checkColorCombination and the check_color_contrast*)
(* tool                                                                    *)
(***************************************************************************)
checkColorCombination(foreground, background) ==
    IF ChromaParses(foreground) /\ ChromaParses(background)
    THEN LET ratio == ChromaContrast(foreground, background)
             passes_aa == PassesAA(ratio)
             passes_aaa == PassesAAA(ratio)
         IN  [ratio |-> ratio,
              passes_aa |-> passes_aa,
              passes_aaa |-> passes_aaa,
              recommendation |->
                  IF ~passes_aa THEN "fails WCAG AA"
                  ELSE IF ~passes_aaa THEN "good for AA"
                  ELSE "meets all WCAG standards"]
    ELSE [ratio |-> 0,
          passes_aa |-> FALSE,
          passes_aaa |-> FALSE,
          recommendation |-> "Invalid color combination"]

\* The handler wraps the call in try/catch and always answers with content;
\* checkColorCombination itself never throws, so the catch branch is dead.
handleCheckColorContrast(input) ==
    [isError |-> FALSE,
     content |-> checkColorCombination(input.foreground, input.background)]

(***************************************************************************)
(* AccessibilityAnalyzer (accessibility-analyzer.ts)                       *)
(*                                                                         *)
(* The input is the sequence of pixels <<r, g, b, a>> that the stride-20   *)
(* scan of extractDominantColors visits, in scan order, and whether        *)
(* Jimp.read could decode the buffer.  chroma.deltaE on the Lab-simulated  *)
(* colours is a library result: whether some pair of simulated colours is  *)
(* closer than 10 is an input of the call, one boolean per deficiency.     *)
(***************************************************************************)
TopColors == 10

\* pixelColor.a > 128
IsOpaque(px) == px[4] > 128

\* chroma([r, g, b]).hex()
PixelHex(px) == <<px[1], px[2], px[3]>>

\* Map insertion order is first-seen order; Array.prototype.sort is stable,
\* so equal counts keep it; slice(0, 10).
extractDominantColors(samples) ==
    LET idx == {i \in 1..Len(samples) : IsOpaque(samples[i])}
        keys == {PixelHex(samples[i]) : i \in idx}
        count(c) == Cardinality({i \in idx : PixelHex(samples[i]) = c})
        first(c) == CHOOSE i \in idx :
                        /\ PixelHex(samples[i]) = c
                        /\ \A j \in idx : PixelHex(samples[j]) = c => i <= j
        before(c, d) == \/ count(c) > count(d)
                        \/ count(c) = count(d) /\ first(c) < first(d)
        rank(c) == Cardinality({d \in keys : before(d, c)})
        sorted == [k \in 1..Cardinality(keys) |-> CHOOSE c \in keys : rank(c) = k - 1]
    IN  SubSeq(sorted, 1, Min2(Len(sorted), TopColors))

\* for i < colors.length - 1, for j = i + 1 .. : one record per pair, in loop
\* order; a pair chroma.contrast throws on is skipped.
performContrastChecks(colors) ==
    LET n == Len(colors)
        pairs == {p \in (1..n) \X (1..n) :
                    /\ p[1] < p[2]
                    /\ ChromaParses(colors[p[1]])
                    /\ ChromaParses(colors[p[2]])}
        lexBefore(p, q) == p[1] < q[1] \/ (p[1] = q[1] /\ p[2] < q[2])
        rank(p) == Cardinality({q \in pairs : lexBefore(q, p)})
        check(p) == LET ratio == ChromaContrast(colors[p[1]], colors[p[2]])
                    IN  [foreground |-> colors[p[1]],
                         background |-> colors[p[2]],
                         ratio |-> ratio,
                         passes_aa |-> PassesAA(ratio),
                         passes_aaa |-> PassesAAA(ratio),
                         location |-> p]
    IN  [k \in 1..Cardinality(pairs) |-> check(CHOOSE p \in pairs : rank(p) = k - 1)]

areColorsDistinguishable_NeedsPair(colors, someClose) ==
    IF Len(colors) < 2 THEN FALSE ELSE ~someClose

\* The double loop runs no comparison for fewer than 2 colours and returns
\* true; otherwise false as soon as a pair has deltaE < 10 (or throws).
areColorsDistinguishable(colors, someClose) ==
    IF Len(colors) < 2 THEN TRUE ELSE ~someClose

analyzeColorBlindnessCompliance(colors, close) ==
    [protanopia_safe |-> areColorsDistinguishable(colors, close.protanopia),
     deuteranopia_safe |-> areColorsDistinguishable(colors, close.deuteranopia),
     tritanopia_safe |-> areColorsDistinguishable(colors, close.tritanopia)]

CountAA(checks) == Cardinality({i \in 1..Len(checks) : checks[i].passes_aa})
CountAAA(checks) == Cardinality({i \in 1..Len(checks) : checks[i].passes_aaa})
SafeCount(cb) ==
    (IF cb.protanopia_safe THEN 1 ELSE 0) + (IF cb.deuteranopia_safe THEN 1 ELSE 0)
        + (IF cb.tritanopia_safe THEN 1 ELSE 0)

RECURSIVE SumRatios(_, _)
SumRatios(checks, k) == IF k = 0 THEN 0 ELSE SumRatios(checks, k - 1) + checks[k].ratio

\* averageRatio > 10 ? 10 : averageRatio > 7 ? 5 : 0 (no checks: 0)
RatioBonus(checks) ==
    LET n == Len(checks)
        sum == SumRatios(checks, n)
    IN  IF n = 0 THEN 0
        ELSE IF sum > 10000 * n THEN 10
        ELSE IF sum > 7000 * n THEN 5
        ELSE 0

\* Math.round(x) for x = num / den, den > 0, num >= 0: floor(x + 1/2)
RoundRatio(num, den) == (2 * num + den) \div (2 * den)

AAPoints_Inverted(aa, n) == 25 * (n - aa)

\* aaPassingRate * 25, as a numerator over contrastChecks.length
AAPoints(aa, n) == 25 * aa

calculateAccessibilityScore(checks, cb) ==
    LET n == Len(checks)
        fixed == 10 * SafeCount(cb) + RatioBonus(checks)
    IN  IF n = 0
        THEN Min2(fixed, 100)
        ELSE LET num == AAPoints(CountAA(checks), n) + 15 * CountAAA(checks) + fixed * n
             IN  RoundRatio(Min2(num, 100 * n), n)

identifyAccessibilityIssues(checks, cb) ==
    LET n == Len(checks)
        failedAA == n - CountAA(checks)
        failedAAA == n - CountAAA(checks)
        lowContrast == {i \in 1..n : checks[i].ratio < 2000}
    IN  (IF failedAA > 0 THEN <<"fail WCAG AA">> ELSE <<>>)
        \o (IF 2 * failedAAA > n THEN <<"many fail WCAG AAA">> ELSE <<>>)
        \o (IF ~cb.protanopia_safe THEN <<"protanopia">> ELSE <<>>)
        \o (IF ~cb.deuteranopia_safe THEN <<"deuteranopia">> ELSE <<>>)
        \o (IF ~cb.tritanopia_safe THEN <<"tritanopia">> ELSE <<>>)
        \o (IF n > 0 /\ lowContrast # {} THEN <<"color alone">> ELSE <<>>)

generateAccessibilityRecommendations(checks, cb) ==
    LET n == Len(checks)
        borderline == {i \in 1..n : checks[i].ratio >= 4500 /\ checks[i].ratio < 7000}
    IN  (IF n - CountAA(checks) > 0 THEN <<"increase contrast to AA">> ELSE <<>>)
        \o (IF borderline # {} THEN <<"increase contrast to AAA">> ELSE <<>>)
        \o (IF SafeCount(cb) < 3 THEN <<"indicators beyond color">> ELSE <<>>)
        \o <<"test with tools", "touch target size", "semantic HTML">>
        \o (IF n > 0 /\ SumRatios(checks, n) < 7000 * n THEN <<"darker text">> ELSE <<>>)

DegradedAccessibility ==
    [degraded |-> TRUE,
     score |-> 50,
     issues |-> <<"Unable to perform detailed accessibility analysis">>,
     recommendations |-> <<"Ensure sufficient color contrast">>,
     contrast_checks |-> <<>>,
     color_blindness_simulation |->
         [protanopia_safe |-> FALSE, deuteranopia_safe |-> FALSE, tritanopia_safe |-> FALSE]]

\* "degraded" is not a field of the returned record: it marks which branch
\* of the try/catch produced it.
analyzeAccessibility(input) ==
    IF ~input.readable
    THEN DegradedAccessibility
    ELSE LET colors == extractDominantColors(input.samples)
             contrastChecks == performContrastChecks(colors)
             colorBlindnessAnalysis == analyzeColorBlindnessCompliance(colors, input.close)
         IN  [degraded |-> FALSE,
              score |-> calculateAccessibilityScore(contrastChecks, colorBlindnessAnalysis),
              issues |-> identifyAccessibilityIssues(contrastChecks, colorBlindnessAnalysis),
              recommendations |->
                  generateAccessibilityRecommendations(contrastChecks, colorBlindnessAnalysis),
              contrast_checks |-> contrastChecks,
              color_blindness_simulation |-> colorBlindnessAnalysis]

\* What two accessibility results are compared on.
AccSummary(out) ==
    [n |-> Len(out.contrast_checks),
     aa |-> CountAA(out.contrast_checks),
     aaa |-> CountAAA(out.contrast_checks),
     bonus |-> RatioBonus(out.contrast_checks),
     flags |-> out.color_blindness_simulation,
     score |-> out.score]

(***************************************************************************)
(* Actions: the server takes one colour call at a time and answers it      *)
(***************************************************************************)
AccPixels ==
    {<<0, 0, 0, 255>>, <<255, 255, 255, 255>>, <<102, 102, 102, 255>>,
     <<255, 255, 255, 128>>}

NoneClose == [protanopia |-> FALSE, deuteranopia |-> FALSE, tritanopia |-> FALSE]

\* chroma.deltaE outcomes are only consulted for 2 or more dominant colours.
CloseInputs(samples) ==
    IF Len(extractDominantColors(samples)) < 2
    THEN {NoneClose}
    ELSE [protanopia : BOOLEAN, deuteranopia : BOOLEAN, tritanopia : BOOLEAN]

AccInputs ==
    {[readable |-> FALSE, samples |-> <<>>, close |-> NoneClose]}
    \cup UNION {{[readable |-> TRUE, samples |-> s, close |-> c] : c \in CloseInputs(s)} :
                    s \in SeqsUpTo(AccPixels, MaxSamples)}

\* What Vibrant and sharp may give for a buffer.  Swatches of one palette are
\* distinct colours; the raw data has the sampled pixels 10 apart with white
\* pixels between them.
SwatchColors == {Red, Cyan, Black}
RawColors == {Red, Black, Unparsable}

VibrantOutcomes ==
    {[throws |-> TRUE, swatches |-> <<>>]}
    \cup {[throws |-> FALSE, swatches |-> s] :
             s \in {q \in SeqsUpTo(SwatchColors, MaxPalette) :
                       \A i \in 1..Len(q) : \A j \in 1..Len(q) : q[i] = q[j] => i = j}}

RawData(samples) ==
    [i \in 1..((Len(samples) - 1) * SampleStride + 1) |->
        IF (i - 1) % SampleStride = 0 THEN samples[(i - 1) \div SampleStride + 1] ELSE White]

RawOutcomes ==
    {[throws |-> TRUE, data |-> <<>>]}
    \cup {[throws |-> FALSE, data |-> RawData(s)] :
             s \in SeqsUpTo(RawColors, MaxSamples) \ {<<>>}}

ColorBuffers == [vibrant : VibrantOutcomes, raw : RawOutcomes]

ColorCounts == 0..MaxCount \cup {DefaultColorCount}

\* rasters for the byte-level sampling: pixel j has the colour
\* (j, j + 60, j + 120) and is opaque, so every pixel differs from every other
PixelRows == {[j \in 1..n |-> <<j, j + 60, j + 120, 255>>] : n \in 1..MaxPixels}
Channels == {3, 4}

CallExtractColorsFromRawData ==
    /\ colorOp = "none"
    /\ \E pixels \in PixelRows, channels \in Channels, colorCount \in ColorCounts,
          undefinedSkipped \in BOOLEAN :
          LET data == RawBytes(pixels, channels)
          IN  /\ colorOp' = "extractColorsFromRawData"
              /\ colorIn' = [pixels |-> pixels, channels |-> channels, data |-> data,
                             colorCount |-> colorCount]
              /\ colorOut' = [offsets |-> SampleOffsets(data),
                              triples |-> SampledTriples(data),
                              palette |-> PaletteOfBytes(data, colorCount, undefinedSkipped)]
              /\ accPrev' = NoValue
              /\ UNCHANGED <<typoVars, compVars, critVars>>

CallExtractPalette ==
    /\ colorOp = "none"
    /\ \E imageBuffer \in ColorBuffers, colorCount \in ColorCounts :
          /\ colorOp' = "extractPalette"
          /\ colorIn' = [imageBuffer |-> imageBuffer, colorCount |-> colorCount]
          /\ colorOut' = [palette |-> extractPalette(imageBuffer, colorCount)]
          /\ accPrev' = NoValue
          /\ UNCHANGED <<typoVars, compVars, critVars>>

\* palettes: every sequence up to MaxPalette colours, and one of four
\* colours holding both a complementary pair and a triad
HarmonyPalettes == SeqsUpTo(ColorStrings, MaxPalette) \cup {<<Red, Green, Blue, Cyan>>}

CallAnalyzeColorHarmony ==
    /\ colorOp = "none"
    /\ \E colors \in HarmonyPalettes :
          /\ colorOp' = "analyzeColorHarmony"
          /\ colorIn' = [colors |-> colors]
          /\ colorOut' = analyzeColorHarmony(colors)
          /\ accPrev' = NoValue
          /\ UNCHANGED <<typoVars, compVars, critVars>>

CallAnalyzeColors ==
    /\ colorOp = "none"
    /\ \E imageBuffer \in ColorBuffers :
          /\ colorOp' = "analyzeColors"
          /\ colorIn' = [imageBuffer |-> imageBuffer]
          /\ colorOut' = analyzeColors(imageBuffer)
          /\ accPrev' = NoValue
          /\ UNCHANGED <<typoVars, compVars, critVars>>

CallCheckAccessibility ==
    /\ colorOp = "none"
    /\ \E fg \in ColorStrings, bg \in ColorStrings :
          /\ colorOp' = "checkAccessibility"
          /\ colorIn' = [foreground |-> fg, background |-> bg]
          /\ colorOut' = checkAccessibility(fg, bg)
          /\ accPrev' = NoValue
          /\ UNCHANGED <<typoVars, compVars, critVars>>

CallCheckColorContrast ==
    /\ colorOp = "none"
    /\ \E fg \in ColorStrings, bg \in ColorStrings :
          /\ colorOp' = "check_color_contrast"
          /\ colorIn' = [foreground |-> fg, background |-> bg]
          /\ colorOut' = handleCheckColorContrast([foreground |-> fg, background |-> bg])
          /\ accPrev' = NoValue
          /\ UNCHANGED <<typoVars, compVars, critVars>>

CallAnalyzeAccessibility ==
    /\ colorOp = "none"
    /\ \E input \in AccInputs :
          /\ colorOp' = "analyzeAccessibility"
          /\ colorIn' = input
          /\ colorOut' = analyzeAccessibility(input)
          /\ accPrev' = accPrev
          /\ UNCHANGED <<typoVars, compVars, critVars>>

\* The answer is delivered; the analyzers keep nothing.  accPrev remembers
\* the summary of a full (not degraded) accessibility result for the next call.
ReturnColor ==
    /\ colorOp # "none"
    /\ colorOp' = "none"
    /\ colorIn' = NoValue
    /\ colorOut' = NoValue
    /\ accPrev' = IF colorOp = "analyzeAccessibility" /\ ~colorOut.degraded
                  THEN AccSummary(colorOut)
                  ELSE NoValue
    /\ UNCHANGED <<typoVars, compVars, critVars>>

InitColor ==
    /\ colorOp = "none"
    /\ colorIn = NoValue
    /\ colorOut = NoValue
    /\ accPrev = NoValue

NextColor ==
    \/ CallExtractPalette
    \/ CallExtractColorsFromRawData
    \/ CallAnalyzeColorHarmony
    \/ CallAnalyzeColors
    \/ CallCheckAccessibility
    \/ CallCheckColorContrast
    \/ CallAnalyzeAccessibility
    \/ ReturnColor

(***************************************************************************)
(* TypographyAnalyzer (typography-analyzer.ts)                             *)
(*                                                                         *)
(* The input is what Tesseract.recognize produced: it threw, or it         *)
(* returned the words, each with its text length, bounding box and         *)
(* confidence.                                                             *)
(***************************************************************************)
\* Math.round(v / step) * step for an integer v >= 0
RoundTo(v, step) == ((2 * v + step) \div (2 * step)) * step

RECURSIVE SumOver(_, _, _)
SumOver(s, F(_), k) == IF k = 0 THEN 0 ELSE SumOver(s, F, k - 1) + F(s[k])

\* words with confidence > 30, as regions
extractTextRegions(ocrData) ==
    LET keep == SelectSeq(ocrData.words, LAMBDA w : w.confidence > 30)
    IN  [i \in 1..Len(keep) |->
            [text |-> keep[i].text,
             x |-> keep[i].x0,
             y |-> keep[i].y0,
             width |-> keep[i].x1 - keep[i].x0,
             height |-> keep[i].y1 - keep[i].y0,
             confidence |-> keep[i].confidence]]

estimateFontCount_NoGuard(textRegions) ==
    LET heightGroups == {RoundTo(textRegions[i].height, 5) : i \in 1..Len(textRegions)}
        distinctHeights == {h \in heightGroups : h > 8}
    IN  Max2(1, Min2(Cardinality(distinctHeights), 4))

estimateFontCount(textRegions) ==
    IF Len(textRegions) = 0 THEN 0
    ELSE LET heightGroups == {RoundTo(textRegions[i].height, 5) : i \in 1..Len(textRegions)}
             distinctHeights == {h \in heightGroups : h > 8}
         IN  Max2(1, Min2(Cardinality(distinctHeights), 4))

\* [...xs].sort((a, b) => b - a)
SortDescending(xs) ==
    LET n == Len(xs)
        before(i, j) == xs[i] > xs[j] \/ (xs[i] = xs[j] /\ i < j)
        rank(i) == Cardinality({j \in 1..n : before(j, i)})
    IN  [k \in 1..n |-> xs[CHOOSE i \in 1..n : rank(i) = k - 1]]

\* [...new Set(xs)]: first occurrences, in order
RECURSIVE Unique(_)
Unique(xs) ==
    IF xs = <<>> THEN <<>>
    ELSE LET front == Unique(SubSeq(xs, 1, Len(xs) - 1))
             last == xs[Len(xs)]
         IN  IF \E i \in 1..Len(front) : front[i] = last THEN front
             ELSE Append(front, last)

\* heights, largest first
Sizes(textRegions) ==
    SortDescending([i \in 1..Len(textRegions) |-> textRegions[i].height])

UniqueSizes(textRegions) ==
    LET sizes == Sizes(textRegions)
    IN  Unique([i \in 1..Len(sizes) |-> RoundTo(sizes[i], 2)])

\* +30 / +20 / +10 for >= 2, 3, 4 distinct sizes
SizeDistinctionPoints(textRegions) ==
    LET n == Len(UniqueSizes(textRegions))
    IN  (IF n >= 2 THEN 30 ELSE 0) + (IF n >= 3 THEN 20 ELSE 0) + (IF n >= 4 THEN 10 ELSE 0)

ProgressionPoints_WiderSteps(textRegions) ==
    LET u == UniqueSizes(textRegions)
    IN  IF \A i \in 1..(Len(u) - 1) : u[i] - u[i + 1] > 2 THEN 20 ELSE 0

\* +20 if every consecutive difference of the distinct sizes is >= 2
ProgressionPoints(textRegions) ==
    LET u == UniqueSizes(textRegions)
    IN  IF \A i \in 1..(Len(u) - 1) : u[i] - u[i + 1] >= 2 THEN 20 ELSE 0

IsSparse_Half(largestTextCount, totalTextCount) == 10 * largestTextCount <= 5 * totalTextCount

\* largestTextCount / totalTextCount < 0.3
IsSparse(largestTextCount, totalTextCount) == 10 * largestTextCount < 3 * totalTextCount

\* +20 if the largest height is carried by less than 30% of the boxes
SparseLargestPoints(textRegions) ==
    LET sizes == Sizes(textRegions)
        largestSize == SeqMax(sizes)
        largestTextCount == Cardinality({i \in 1..Len(sizes) : sizes[i] = largestSize})
    IN  IF IsSparse(largestTextCount, Len(sizes)) THEN 20 ELSE 0

analyzeHierarchy(textRegions) ==
    IF Len(textRegions) = 0 THEN 0
    ELSE Min2(SizeDistinctionPoints(textRegions) + ProgressionPoints(textRegions)
                  + SparseLargestPoints(textRegions), 100)

Area(r) == r.width * r.height
HeightOf(r) == r.height
ConfidenceOf(r) == r.confidence
TextLength(r) == r.text

\* totalTextArea and boundingBoxArea of calculateTextDensity; the density is
\* their quotient, Infinity or NaN when the bounding box has no area.
TotalTextArea(textRegions) == SumOver(textRegions, Area, Len(textRegions))

BoundingBoxArea(textRegions) ==
    LET n == Len(textRegions)
        minX == SeqMin([i \in 1..n |-> textRegions[i].x])
        maxX == SeqMax([i \in 1..n |-> textRegions[i].x + textRegions[i].width])
        minY == SeqMin([i \in 1..n |-> textRegions[i].y])
        maxY == SeqMax([i \in 1..n |-> textRegions[i].y + textRegions[i].height])
    IN  (maxX - minX) * (maxY - minY)

\* textDensity < 0.7 -> 25, < 0.85 -> 15, else (also Infinity, NaN) 0
DensityPoints(textRegions) ==
    LET total == TotalTextArea(textRegions)
        box == BoundingBoxArea(textRegions)
    IN  IF box <= 0 THEN 0
        ELSE IF 10 * total < 7 * box THEN 25
        ELSE IF 100 * total < 85 * box THEN 15
        ELSE 0

\* the lines of calculateLineLengths: one per 5px-rounded y
LineCount(textRegions) ==
    Cardinality({RoundTo(textRegions[i].y, 5) : i \in 1..Len(textRegions)})

analyzeReadability(textRegions) ==
    IF Len(textRegions) = 0 THEN 0
    ELSE LET n == Len(textRegions)
             sumHeight == SumOver(textRegions, HeightOf, n)
             sumConfidence == SumOver(textRegions, ConfidenceOf, n)
             chars == SumOver(textRegions, TextLength, n)
             lines == LineCount(textRegions)
             sizePoints == IF sumHeight >= 12 * n THEN 25
                           ELSE IF sumHeight >= 10 * n THEN 15
                           ELSE IF sumHeight >= 8 * n THEN 10
                           ELSE 0
             clarityPoints == IF sumConfidence >= 80 * n THEN 25
                              ELSE IF sumConfidence >= 60 * n THEN 15
                              ELSE IF sumConfidence >= 40 * n THEN 10
                              ELSE 0
             linePoints == IF chars >= 30 * lines /\ chars <= 75 * lines THEN 25
                           ELSE IF chars >= 20 * lines /\ chars <= 90 * lines THEN 15
                           ELSE 0
         IN  Min2(sizePoints + DensityPoints(textRegions) + clarityPoints + linePoints, 100)

identifyIssues(textRegions, fontCount, hierarchyScore, readabilityScore) ==
    LET n == Len(textRegions)
        smallText == {i \in 1..n : textRegions[i].height < 8}
        lowConfidenceText == {i \in 1..n : textRegions[i].confidence < 40}
    IN  (IF fontCount > 3 THEN <<"too many sizes">> ELSE <<>>)
        \o (IF hierarchyScore < 50 THEN <<"weak hierarchy">> ELSE <<>>)
        \o (IF readabilityScore < 60 THEN <<"readability">> ELSE <<>>)
        \o (IF smallText # {} THEN <<"small text">> ELSE <<>>)
        \o (IF 10 * Cardinality(lowConfidenceText) > 2 * n THEN <<"unclear text">> ELSE <<>>)

DegradedTypography ==
    [degraded |-> TRUE,
     font_count |-> 2,
     hierarchy_score |-> 70,
     readability_score |-> 75,
     issues |-> <<"Unable to perform detailed typography analysis">>,
     text_regions |-> <<>>]

\* "degraded" marks the branch of the try/catch; it is not a returned field.
analyzeTypography_PartialFallback(ocr) ==
    IF ocr.throws
    THEN DegradedTypography
    ELSE LET textRegions == extractTextRegions(ocr)
             fontCount == estimateFontCount(textRegions)
             hierarchyScore == analyzeHierarchy(textRegions)
             readabilityScore == analyzeReadability(textRegions)
         IN  IF textRegions = <<>>
             THEN [DegradedTypography EXCEPT !.degraded = FALSE, !.font_count = fontCount]
             ELSE [degraded |-> FALSE,
                   font_count |-> fontCount,
                   hierarchy_score |-> hierarchyScore,
                   readability_score |-> readabilityScore,
                   issues |-> identifyIssues(textRegions, fontCount, hierarchyScore,
                                             readabilityScore),
                   text_regions |-> textRegions]

\* try { performOCR ... } catch { the fixed result }
analyzeTypography(ocr) ==
    IF ocr.throws
    THEN DegradedTypography
    ELSE LET textRegions == extractTextRegions(ocr)
             fontCount == estimateFontCount(textRegions)
             hierarchyScore == analyzeHierarchy(textRegions)
             readabilityScore == analyzeReadability(textRegions)
         IN  [degraded |-> FALSE,
              font_count |-> fontCount,
              hierarchy_score |-> hierarchyScore,
              readability_score |-> readabilityScore,
              issues |-> identifyIssues(textRegions, fontCount, hierarchyScore, readabilityScore),
              text_regions |-> textRegions]

Word(text, x0, y0, x1, y1, confidence) ==
    [text |-> text, x0 |-> x0, y0 |-> y0, x1 |-> x1, y1 |-> y1, confidence |-> confidence]

Heading40 == Word(7, 0, 0, 200, 40, 90)
Body12 == Word(20, 0, 100, 150, 112, 85)

OcrWords ==
    {Heading40,                        \* height 40 at y = 0
     Body12,                           \* height 12 at y = 100
     Word(45, 0, 120, 300, 133, 70),   \* height 13, a long line
     Word(3, 10, 200, 40, 206, 35),    \* height 6, barely recognised
     Word(5, 0, 300, 60, 312, 20),     \* confidence 20: not a valid box
     Word(1, 50, 0, 50, 12, 50)}       \* zero width

OcrOutcomes ==
    {[throws |-> TRUE, words |-> <<>>]}
    \cup {[throws |-> FALSE, words |-> ws] : ws \in SeqsUpTo(OcrWords, MaxWords)}

TypoIdle ==
    /\ typoPhase = "idle"
    /\ typoIn = NoValue
    /\ typoOut = NoValue

CallAnalyzeTypography ==
    /\ typoPhase = "idle"
    /\ \E ocr \in OcrOutcomes :
          /\ typoPhase' = "done"
          /\ typoIn' = ocr
          /\ typoOut' = analyzeTypography(ocr)
          /\ UNCHANGED <<colorVars, compVars, critVars>>

ReturnTypography ==
    /\ typoPhase = "done"
    /\ typoPhase' = "idle"
    /\ typoIn' = NoValue
    /\ typoOut' = NoValue
    /\ UNCHANGED <<colorVars, compVars, critVars>>

NextTypography ==
    \/ CallAnalyzeTypography
    \/ ReturnTypography

(***************************************************************************)
(* CompositionAnalyzer (composition-analyzer.ts)                           *)
(*                                                                         *)
(* A Jimp image is its width, its height and its bitmap, the colour of     *)
(* every pixel.  The rasters of the model are a background colour crossed  *)
(* by full-height columns and full-width rows of a foreground colour; a    *)
(* raster without columns and rows is uniform.  Brightness (r + g + b) / 3 *)
(* is kept three times as large, as the integer r + g + b.                 *)
(***************************************************************************)
\* F(lo) + ... + F(hi)
RECURSIVE SumRange(_, _, _)
SumRange(F(_), lo, hi) ==
    IF lo > hi THEN 0
    ELSE IF lo = hi THEN F(lo)
    ELSE SumRange(F, lo, (lo + hi) \div 2) + SumRange(F, (lo + hi) \div 2 + 1, hi)

\* F(v), with v evaluated once: a local constant of the code
With(v, F(_)) == CHOOSE r \in {F(a) : a \in {v}} : TRUE

SetMax(S) == CHOOSE x \in S : \A y \in S : y <= x
SetMin(S) == CHOOSE x \in S : \A y \in S : x <= y

\* the members of a set of integers, ascending
Ascending(S) ==
    [k \in 1..Cardinality(S) |-> CHOOSE x \in S : Cardinality({y \in S : y < x}) = k - 1]

\* r with field k set to v
Put(r, k, v) == [f \in DOMAIN r \cup {k} |-> IF f = k THEN v ELSE r[f]]

LightGrey == <<230, 230, 230>>

Raster(width, height, bg, fg, cols, rows) ==
    [width |-> width,
     height |-> height,
     bitmap |-> [y \in 0..(height - 1) |->
                    [x \in 0..(width - 1) |->
                        IF x \in cols \/ y \in rows THEN fg ELSE bg]]]

getPixelColor(image, x, y) == image.bitmap[y][x]

\* pixel.r + pixel.g + pixel.b
Brightness3(image, x, y) ==
    LET pixel == getPixelColor(image, x, y)
    IN  pixel[1] + pixel[2] + pixel[3]

\* Jimp's greyscale: parseInt(.2126 * r + .7152 * g + .0722 * b), in doubles
GreyOf(c) ==
    CASE c = White -> 254
      [] c = LightGrey -> 229
      [] c = Black -> 0
      [] c = Red -> 54
      [] c = Green -> 182
      [] c = Orange -> 163

greyscale(image) ==
    [image EXCEPT !.bitmap =
        [y \in 0..(image.height - 1) |->
            [x \in 0..(image.width - 1) |->
                LET grey == GreyOf(image.bitmap[y][x])
                IN  <<grey, grey, grey>>]]]

EdgeThreshold == 30
MinLineDistance == 20

\* filtered after the loop has looked at lines[i] (0-based, as in the code)
RECURSIVE FilteredUpTo(_, _, _)
FilteredUpTo(lines, minDistance, i) ==
    IF i = 0 THEN <<lines[1]>>
    ELSE With(FilteredUpTo(lines, minDistance, i - 1),
              LAMBDA filtered :
                  IF lines[i + 1] - filtered[Len(filtered)] >= minDistance
                  THEN Append(filtered, lines[i + 1])
                  ELSE filtered)

filterCloseLines_Strict(lines, minDistance) ==
    IF Len(lines) = 0 THEN lines
    ELSE FilteredUpTo(lines, minDistance + 1, Len(lines) - 1)

filterCloseLines(lines, minDistance) ==
    IF Len(lines) = 0 THEN lines
    ELSE FilteredUpTo(lines, minDistance, Len(lines) - 1)

\* Math.abs(a - b) > threshold on brightnesses kept three times as large
DiffersBy(a3, b3, threshold) == Abs(a3 - b3) > 3 * threshold

detectVerticalLines(image) ==
    LET isEdge(x, y) ==
            \/ DiffersBy(Brightness3(image, x, y), Brightness3(image, x - 1, y), EdgeThreshold)
            \/ DiffersBy(Brightness3(image, x, y), Brightness3(image, x + 1, y), EdgeThreshold)
        edgeCount(x) == Cardinality({y \in 1..(image.height - 2) : isEdge(x, y)})
        lines == {x \in 1..(image.width - 2) : 10 * edgeCount(x) > image.height}
    IN  With(Ascending(lines), LAMBDA sorted : filterCloseLines(sorted, MinLineDistance))

detectHorizontalLines(image) ==
    LET isEdge(x, y) ==
            \/ DiffersBy(Brightness3(image, x, y), Brightness3(image, x, y - 1), EdgeThreshold)
            \/ DiffersBy(Brightness3(image, x, y), Brightness3(image, x, y + 1), EdgeThreshold)
        edgeCount(y) == Cardinality({x \in 1..(image.width - 2) : isEdge(x, y)})
        lines == {y \in 1..(image.height - 2) : 10 * edgeCount(y) > image.width}
    IN  With(Ascending(lines), LAMBDA sorted : filterCloseLines(sorted, MinLineDistance))

\* standardDeviation < averageSpacing * 0.3 for n spacings of sum s and sum of
\* squares q: the variance is q/n - (s/n)^2
DeviationBelow30Percent(n, s, q) == 100 * (n * q - s * s) < 9 * s * s

\* averageSpacing is the pair <<sum, count>> of the spacings
analyzeLineSpacing(lines, dimension) ==
    IF Len(lines) < 3
    THEN [consistent |-> FALSE, averageSpacing |-> <<0, 1>>]
    ELSE LET spacing(i) == lines[i + 1] - lines[i]
             n == Len(lines) - 1
             s == SumRange(LAMBDA i : spacing(i), 1, n)
             q == SumRange(LAMBDA i : spacing(i) * spacing(i), 1, n)
         IN  [consistent |-> n >= 2 /\ DeviationBelow30Percent(n, s, q),
              averageSpacing |-> <<s, n>>]

BothConsistent_Either(verticalSpacing, horizontalSpacing) ==
    verticalSpacing.consistent \/ horizontalSpacing.consistent

BothConsistent(verticalSpacing, horizontalSpacing) ==
    verticalSpacing.consistent /\ horizontalSpacing.consistent

\* the locals of analyzeGridAlignment that the result is computed from
analyzeGridAlignment(image) ==
    With(greyscale(image), LAMBDA edgeImage :
    With(detectVerticalLines(edgeImage), LAMBDA verticalLines :
    With(detectHorizontalLines(edgeImage), LAMBDA horizontalLines :
        LET verticalSpacing == analyzeLineSpacing(verticalLines, image.width)
            horizontalSpacing == analyzeLineSpacing(horizontalLines, image.height)
        IN  [verticalLines |-> verticalLines,
             horizontalLines |-> horizontalLines,
             result |-> BothConsistent(verticalSpacing, horizontalSpacing)])))

divideIntoRegions(image) ==
    LET regionWidth == image.width \div 3
        regionHeight == image.height \div 3
    IN  [i \in 1..9 |->
            [x |-> ((i - 1) % 3) * regionWidth,
             y |-> ((i - 1) \div 3) * regionHeight,
             width |-> regionWidth,
             height |-> regionHeight]]

RegionColumns(image, region) == region.x..(Min2(region.x + region.width, image.width) - 1)
RegionRows(image, region) == region.y..(Min2(region.y + region.height, image.height) - 1)

\* max - min brightness, three times as large
calculateRegionContrast(image, region) ==
    LET brightnesses == {Brightness3(image, x, y) :
                            x \in RegionColumns(image, region), y \in RegionRows(image, region)}
    IN  IF brightnesses = {} THEN 0 ELSE SetMax(brightnesses) - SetMin(brightnesses)

\* <<totalBrightness (three times as large), pixelCount>>
calculateRegionBrightness(image, region) ==
    With(Min2(region.x + region.width, image.width) - 1, LAMBDA lastX :
    With(Min2(region.y + region.height, image.height) - 1, LAMBDA lastY :
        <<SumRange(LAMBDA y : SumRange(LAMBDA x : Brightness3(image, x, y), region.x, lastX),
                   region.y, lastY),
          Cardinality(RegionColumns(image, region)) * Cardinality(RegionRows(image, region))>>))

\* contrast + brightness, times 3 * pixelCount (the same for all nine regions)
VisualWeight(r) ==
    IF r.brightness[2] = 0 THEN 0 ELSE r.contrast * r.brightness[2] + r.brightness[1]

\* regionAnalysis.sort((a, b) => (b.contrast + b.brightness) - (a.contrast + a.brightness))
SortByVisualWeight(regionAnalysis) ==
    LET n == Len(regionAnalysis)
        before(i, j) ==
            \/ VisualWeight(regionAnalysis[i]) > VisualWeight(regionAnalysis[j])
            \/ (VisualWeight(regionAnalysis[i]) = VisualWeight(regionAnalysis[j]) /\ i < j)
        rank(i) == Cardinality({j \in 1..n : before(j, i)})
    IN  [k \in 1..n |-> regionAnalysis[CHOOSE i \in 1..n : rank(i) = k - 1]]

\* positions[4] || 'center'
describeRegionPosition(region) == "center"

\* enum: ['web', 'mobile', 'print', 'general']
DesignTypes == {"web", "mobile", "print", "general"}

DesignTypeHint_Default(design_type) ==
    CASE design_type = "web" -> <<"Layout follows web design conventions">>
      [] design_type = "mobile" -> <<"Vertical flow optimized for mobile viewing">>
      [] design_type = "print" -> <<"Traditional print layout hierarchy">>
      [] OTHER -> <<"Layout follows web design conventions">>

\* switch (design_type): three cases, no default
DesignTypeHint(design_type) ==
    CASE design_type = "web" -> <<"Layout follows web design conventions">>
      [] design_type = "mobile" -> <<"Vertical flow optimized for mobile viewing">>
      [] design_type = "print" -> <<"Traditional print layout hierarchy">>
      [] OTHER -> <<>>

analyzeVisualHierarchy(image, design_type) ==
    With([i \in 1..9 |->
             With(divideIntoRegions(image)[i], LAMBDA region :
                 [x |-> region.x, y |-> region.y,
                  contrast |-> calculateRegionContrast(image, region),
                  brightness |-> calculateRegionBrightness(image, region)])],
         LAMBDA analysed :
    With(SortByVisualWeight(analysed), LAMBDA regionAnalysis :
        (IF regionAnalysis[1].contrast > 3 * 30
         THEN <<"Strong focal point detected in " \o describeRegionPosition(regionAnalysis[1])>>
         ELSE <<"Balanced composition with no dominant focal point">>)
        \o (IF regionAnalysis[2].contrast > 3 * 20
            THEN <<"Secondary emphasis in " \o describeRegionPosition(regionAnalysis[2])>>
            ELSE <<>>)
        \o DesignTypeHint(design_type)))

\* the brightnesses of the left half, or of the mirrored right half, row by row
getImageHalf(image, half) ==
    LET halfWidth == image.width \div 2
    IN  [i \in 1..(halfWidth * image.height) |->
            LET x == (i - 1) % halfWidth
                y == (i - 1) \div halfWidth
                sourceX == IF half = "left" THEN x ELSE image.width - 1 - x
            IN  Brightness3(image, sourceX, y)]

\* <<totalDifference (three times as large), length>>
compareImageHalves(left, right) ==
    With(Min2(Len(left), Len(right)), LAMBDA length :
        <<SumRange(LAMBDA i : Abs(left[i] - right[i]), 1, length), length>>)

\* symmetryScore > 0.8: max(0, 1 - averageDifference / 255) > 0.8; 0/0 is NaN
SymmetryAbove08(symmetry) ==
    symmetry[2] > 0 /\ symmetry[1] < 153 * symmetry[2]

\* Math.sqrt in fixed point: floor(SqrtScale * sqrt(n))
SqrtScale == 16

RECURSIVE SqrtSearch(_, _, _)
SqrtSearch(n, lo, hi) ==
    IF lo = hi THEN lo
    ELSE LET mid == (lo + hi + 1) \div 2
         IN  IF mid * mid <= n THEN SqrtSearch(n, mid, hi) ELSE SqrtSearch(n, lo, mid - 1)

\* the square roots analyzeRadialBalance takes: of (2 * distance)^2 up to
\* min(width, height)^2
SqrtTable ==
    [n \in 0..((LargeDim + 1) * (LargeDim + 1)) |->
        SqrtSearch(SqrtScale * SqrtScale * n, 0, SqrtScale * (LargeDim + 1))]

ScaledSqrt(n) == SqrtTable[n]

\* (2 * distance)^2 of pixel (x, y) from the centre (width / 2, height / 2)
Distance2(image, x, y) ==
    (2 * x - image.width) * (2 * x - image.width)
        + (2 * y - image.height) * (2 * y - image.height)

\* distance <= maxRadius, with maxRadius = min(width, height) / 2
InCircle(image, x, y) ==
    LET m == Min2(image.width, image.height)
    IN  Distance2(image, x, y) <= m * m

\* weight = 1 - distance / maxRadius, times SqrtScale * min(width, height);
\* it is 0 exactly on the circle
RadialWeight(image, x, y) ==
    IF InCircle(image, x, y)
    THEN SqrtScale * Min2(image.width, image.height) - ScaledSqrt(Distance2(image, x, y))
    ELSE 0

\* sum of (brightness - averageBrightness)^2 (nine times as large) and count
calculateRadialVariance(image, averageBrightness3) ==
    LET term(x, y) ==
            IF InCircle(image, x, y)
            THEN (Brightness3(image, x, y) - averageBrightness3)
                     * (Brightness3(image, x, y) - averageBrightness3)
            ELSE 0
    IN  <<SumRange(LAMBDA y : SumRange(LAMBDA x : term(x, y), 0, image.width - 1),
                   0, image.height - 1),
          Cardinality({p \in (0..(image.width - 1)) \X (0..(image.height - 1)) :
                          InCircle(image, p[1], p[2])})>>

\* radialScore > 0.7, with radialScore = max(0, 1 - variance / 10000):
\* totalWeight = 0 makes averageBrightness NaN, and so the variance unless no
\* pixel is in the circle (variance 0)
analyzeRadialBalance(image) ==
    LET totalWeight == SumRange(LAMBDA y : SumRange(LAMBDA x : RadialWeight(image, x, y),
                                                    0, image.width - 1),
                                0, image.height - 1)
        weightedSum == SumRange(LAMBDA y :
                                    SumRange(LAMBDA x : Brightness3(image, x, y)
                                                            * RadialWeight(image, x, y),
                                             0, image.width - 1),
                                0, image.height - 1)
        count == Cardinality({p \in (0..(image.width - 1)) \X (0..(image.height - 1)) :
                                 InCircle(image, p[1], p[2])})
    IN  IF count = 0 THEN TRUE
        ELSE IF totalWeight = 0 THEN FALSE
        ELSE With(RoundRatio(weightedSum, totalWeight), LAMBDA averageBrightness3 :
             With(calculateRadialVariance(image, averageBrightness3), LAMBDA variance :
                 variance[1] < 27000 * variance[2]))

Classify_SymmetricFirst(radial, symmetric) ==
    IF symmetric THEN "symmetric"
    ELSE IF radial THEN "radial"
    ELSE "asymmetric"

\* the if / else if / else of analyzeBalance
Classify(radial, symmetric) ==
    IF radial THEN "radial"
    ELSE IF symmetric THEN "symmetric"
    ELSE "asymmetric"

analyzeBalance(image) ==
    With(getImageHalf(image, "left"), LAMBDA leftHalf :
    With(getImageHalf(image, "right"), LAMBDA rightHalf :
    With(compareImageHalves(leftHalf, rightHalf), LAMBDA symmetryScore :
        Classify(analyzeRadialBalance(image), SymmetryAbove08(symmetryScore)))))

SpacingRadius == 20

checkLocalSpacing(image, centerX, centerY) ==
    LET xs == Max2(0, centerX - SpacingRadius)..(Min2(image.width, centerX + SpacingRadius) - 1)
        ys == Max2(0, centerY - SpacingRadius)..(Min2(image.height, centerY + SpacingRadius) - 1)
    IN  With(Cardinality({p \in xs \X ys : Brightness3(image, p[1], p[2]) > 3 * 200}),
             LAMBDA whitePixels :
        With(Cardinality(xs) * Cardinality(ys), LAMBDA totalPixels :
             10 * whitePixels > 3 * totalPixels /\ 10 * whitePixels < 8 * totalPixels))

\* the step of the sampling loops: Math.floor(dimension / 10)
SpacingStep(dimension) == dimension \div 10

\* the loops of analyzeSpacing end only if both steps are positive
SpacingLoopsEnd(image) == SpacingStep(image.width) > 0 /\ SpacingStep(image.height) > 0

SamplePoints(dimension) ==
    {k * SpacingStep(dimension) : k \in 0..((dimension - 1) \div SpacingStep(dimension))}

analyzeSpacing(image) ==
    LET points == SamplePoints(image.width) \X SamplePoints(image.height)
        consistentSpacing == Cardinality({p \in points : checkLocalSpacing(image, p[1], p[2])})
        totalChecks == Cardinality(points)
    IN  totalChecks > 0 /\ 10 * consistentSpacing > 6 * totalChecks

ContrastRadius == 10

\* max - min brightness, three times as large
calculateLocalContrast(image, centerX, centerY) ==
    LET xs == Max2(0, centerX - ContrastRadius)..(Min2(image.width, centerX + ContrastRadius) - 1)
        ys == Max2(0, centerY - ContrastRadius)..(Min2(image.height, centerY + ContrastRadius) - 1)
        brightnesses == {Brightness3(image, x, y) : x \in xs, y \in ys}
    IN  IF brightnesses = {} THEN 0 ELSE SetMax(brightnesses) - SetMin(brightnesses)

checkRuleOfThirds(image) ==
    LET verticalThirds == <<image.width \div 3, (2 * image.width) \div 3>>
        horizontalThirds == <<image.height \div 3, (2 * image.height) \div 3>>
        hits == {p \in (1..2) \X (1..2) :
                    calculateLocalContrast(image, verticalThirds[p[1]], horizontalThirds[p[2]])
                        > 3 * 50}
    IN  Min2(5 * Cardinality(hits), 30)

\* Math.abs(width / height - ratio) < 0.1 for a ratio num / den
NearRatio(width, height, num, den) == 10 * Abs(den * width - num * height) < den * height

calculateAlignmentScore(image) ==
    LET verticalLines == detectVerticalLines(image)
        horizontalLines == detectHorizontalLines(image)
        commonRatio == \/ NearRatio(image.width, image.height, 16, 9)
                       \/ NearRatio(image.width, image.height, 4, 3)
                       \/ NearRatio(image.width, image.height, 3, 2)
                       \/ NearRatio(image.width, image.height, 5, 4)
                       \/ NearRatio(image.width, image.height, 1618, 1000)
        score == (IF Len(verticalLines) >= 2 THEN 25 ELSE 0)
                 + (IF Len(horizontalLines) >= 2 THEN 25 ELSE 0)
                 + (IF commonRatio THEN 20 ELSE 0)
                 + checkRuleOfThirds(image)
    IN  Max2(0, Min2(100, score))

calculateCompositionScore_NoBalance(factors) ==
    LET points == (IF factors.gridAlignment THEN 25 ELSE 0)
                  + (CASE factors.balance = "symmetric" -> 25
                       [] factors.balance = "radial" -> 23
                       [] factors.balance = "asymmetric" -> 0)
                  + (IF factors.spacingConsistency THEN 25 ELSE 0)
    IN  RoundRatio(100 * points + 25 * factors.alignmentScore, 100)

calculateCompositionScore(factors) ==
    LET points == (IF factors.gridAlignment THEN 25 ELSE 0)
                  + (CASE factors.balance = "symmetric" -> 25
                       [] factors.balance = "radial" -> 23
                       [] factors.balance = "asymmetric" -> 20)
                  + (IF factors.spacingConsistency THEN 25 ELSE 0)
    IN  RoundRatio(100 * points + 25 * factors.alignmentScore, 100)

DegradedLayout ==
    [degraded |-> TRUE,
     score |-> 50,
     grid_alignment |-> FALSE,
     visual_hierarchy |-> <<"Unable to analyze hierarchy">>,
     balance |-> "asymmetric",
     spacing_consistency |-> FALSE,
     alignment_score |-> 50]

(***************************************************************************)
(* The rasters analyzeComposition is called on                             *)
(***************************************************************************)
SmallDims == 1..MaxSmallDim
Dims == SmallDims \cup {LargeDim}

UniformColors == {Black, White, Orange}

UniformRasters ==
    {Raster(w, h, c, c, {}, {}) : w \in Dims, h \in Dims, c \in UniformColors}

SmallRasters == {image \in UniformRasters : image.width # LargeDim /\ image.height # LargeDim}

\* where the columns and rows of the foreground colour may lie
LinePositions == {2, 22, 46, 62}

ColumnSets == {{}} \cup {cols \in SUBSET LinePositions : 2 \in cols}
RowSets == {{}, {2, 22}, {2, 22, 46}, {2, 22, 62}}

LinedRasters ==
    {Raster(LargeDim, LargeDim, White, Black, cols, rows) : cols \in ColumnSets, rows \in RowSets}
    \cup {Raster(LargeDim, LargeDim, White, LightGrey, {2, 22, 46}, {2, 22, 46}),
          Raster(LargeDim, LargeDim, Green, Red, {2, 22, 46}, {2, 22, 46}),
          Raster(LargeDim, (3 * LargeDim) \div 4, White, Black, {2, 22, 46}, {2, 22})}

\* the calls: every design type on the small rasters and on one lined
\* raster, the default on the others
CompositionCalls ==
    (SmallRasters \X DesignTypes)
    \cup (((UniformRasters \ SmallRasters) \cup LinedRasters) \X {"web"})
    \cup ({Raster(LargeDim, (3 * LargeDim) \div 4, White, Black, {2, 22, 46}, {2, 22})}
              \X DesignTypes)

IsUniform(image) ==
    \A y \in 0..(image.height - 1) : \A x \in 0..(image.width - 1) :
        image.bitmap[y][x] = image.bitmap[0][0]

CompIdle ==
    /\ compPc = "idle"
    /\ compIn = NoValue
    /\ compLocals = NoValue
    /\ compOut = NoValue

\* Jimp.read: the buffer decodes to a raster, or the analysis degrades
CallAnalyzeCompositionOn(calls) ==
    /\ compPc = "idle"
    /\ \E readable \in BOOLEAN :
          IF readable
          THEN \E call \in calls :
                  /\ compPc' = "gridAlignment"
                  /\ compIn' = [readable |-> TRUE, image |-> call[1], design_type |-> call[2]]
                  /\ compLocals' = [width |-> call[1].width, height |-> call[1].height]
                  /\ compOut' = NoValue
          ELSE /\ compPc' = "done"
               /\ compIn' = [readable |-> FALSE]
               /\ compLocals' = NoValue
               /\ compOut' = DegradedLayout
    /\ UNCHANGED <<colorVars, typoVars, critVars>>

CallAnalyzeComposition == CallAnalyzeCompositionOn(CompositionCalls)

\* the calls on the rasters of at most MaxSmallDim pixels a side
CallAnalyzeSmallComposition == CallAnalyzeCompositionOn(SmallRasters \X DesignTypes)

StepGridAlignment ==
    /\ compPc = "gridAlignment"
    /\ \E grid \in {analyzeGridAlignment(compIn.image)} :
          compLocals' = Put(Put(Put(compLocals, "verticalLines", grid.verticalLines),
                                "horizontalLines", grid.horizontalLines),
                            "gridAlignment", grid.result)
    /\ compPc' = "visualHierarchy"
    /\ UNCHANGED <<compIn, compOut, colorVars, typoVars, critVars>>

StepVisualHierarchy ==
    /\ compPc = "visualHierarchy"
    /\ compLocals' = Put(compLocals, "visualHierarchy",
                         analyzeVisualHierarchy(compIn.image, compIn.design_type))
    /\ compPc' = "balance"
    /\ UNCHANGED <<compIn, compOut, colorVars, typoVars, critVars>>

StepBalance ==
    /\ compPc = "balance"
    /\ compLocals' = Put(compLocals, "balance", analyzeBalance(compIn.image))
    /\ compPc' = "spacing"
    /\ UNCHANGED <<compIn, compOut, colorVars, typoVars, critVars>>

StepSpacing ==
    /\ compPc = "spacing"
    /\ SpacingLoopsEnd(compIn.image)
    /\ compLocals' = Put(compLocals, "spacingConsistency", analyzeSpacing(compIn.image))
    /\ compPc' = "alignmentScore"
    /\ UNCHANGED <<compIn, compOut, colorVars, typoVars, critVars>>

\* The body of a sampling loop whose step is 0: checkLocalSpacing and
\* totalChecks++.  The counter is followed up to MaxSpin.
SpinSpacing ==
    /\ compPc = "spacing"
    /\ ~SpacingLoopsEnd(compIn.image)
    /\ LET totalChecks == IF "totalChecks" \in DOMAIN compLocals THEN compLocals.totalChecks ELSE 0
       IN  compLocals' = Put(compLocals, "totalChecks", Min2(totalChecks + 1, MaxSpin))
    /\ compPc' = "spacingAdvance"
    /\ UNCHANGED <<compIn, compOut, colorVars, typoVars, critVars>>

\* x += 0 (or y += 0): the loop test holds again and the body is entered
\* once more
AdvanceSpacing ==
    /\ compPc = "spacingAdvance"
    /\ compPc' = "spacing"
    /\ UNCHANGED <<compIn, compLocals, compOut, colorVars, typoVars, critVars>>

StepAlignmentScore ==
    /\ compPc = "alignmentScore"
    /\ compLocals' = Put(compLocals, "alignmentScore", calculateAlignmentScore(compIn.image))
    /\ compPc' = "score"
    /\ UNCHANGED <<compIn, compOut, colorVars, typoVars, critVars>>

StepCompositionScore ==
    /\ compPc = "score"
    /\ compOut' = [degraded |-> FALSE,
                   score |-> calculateCompositionScore(compLocals),
                   grid_alignment |-> compLocals.gridAlignment,
                   visual_hierarchy |-> compLocals.visualHierarchy,
                   balance |-> compLocals.balance,
                   spacing_consistency |-> compLocals.spacingConsistency,
                   alignment_score |-> compLocals.alignmentScore]
    /\ compPc' = "done"
    /\ UNCHANGED <<compIn, compLocals, colorVars, typoVars, critVars>>

ReturnComposition ==
    /\ compPc = "done"
    /\ compPc' = "idle"
    /\ compIn' = NoValue
    /\ compLocals' = NoValue
    /\ compOut' = NoValue
    /\ UNCHANGED <<colorVars, typoVars, critVars>>

NextComposition ==
    \/ CallAnalyzeComposition
    \/ StepGridAlignment
    \/ StepVisualHierarchy
    \/ StepBalance
    \/ StepSpacing
    \/ SpinSpacing
    \/ AdvanceSpacing
    \/ StepAlignmentScore
    \/ StepCompositionScore
    \/ ReturnComposition

\* calculateCompositionScore on its own: every combination of the factors
\* analyzeComposition can hand to it; an alignment score is a multiple of 5
BalanceTypes == {"symmetric", "asymmetric", "radial"}

AlignmentScores == {a \in 0..100 : a % 5 = 0}

CompositionFactors ==
    [gridAlignment : BOOLEAN, balance : BalanceTypes, spacingConsistency : BOOLEAN,
     alignmentScore : AlignmentScores]

CallCalculateCompositionScore ==
    /\ compPc = "idle"
    /\ \E factors \in CompositionFactors :
          /\ compPc' = "calculateCompositionScore"
          /\ compIn' = factors
          /\ compOut' = [score |-> calculateCompositionScore(factors)]
    /\ UNCHANGED <<compLocals, colorVars, typoVars, critVars>>

ReturnCompositionScore ==
    /\ compPc = "calculateCompositionScore"
    /\ compPc' = "idle"
    /\ compIn' = NoValue
    /\ compOut' = NoValue
    /\ UNCHANGED <<compLocals, colorVars, typoVars, critVars>>

NextCompositionScore ==
    \/ CallCalculateCompositionScore
    \/ ReturnCompositionScore

\* filterCloseLines on its own: the ascending lists of at most MaxLines
\* positions that the detection loops can push
LineCandidates == {1, 2, 20, 21, 22, 40, 41, 42, 61}

DetectedLines ==
    {Ascending(S) : S \in {T \in SUBSET LineCandidates : Cardinality(T) <= MaxLines}}

CallFilterCloseLines ==
    /\ compPc = "idle"
    /\ \E lines \in DetectedLines :
          /\ compPc' = "filterCloseLines"
          /\ compIn' = [lines |-> lines, minDistance |-> MinLineDistance]
          /\ compOut' = [filtered |-> filterCloseLines(lines, MinLineDistance)]
    /\ UNCHANGED <<compLocals, colorVars, typoVars, critVars>>

ReturnFilterCloseLines ==
    /\ compPc = "filterCloseLines"
    /\ compPc' = "idle"
    /\ compIn' = NoValue
    /\ compOut' = NoValue
    /\ UNCHANGED <<compLocals, colorVars, typoVars, critVars>>

NextLineMerge ==
    \/ CallFilterCloseLines
    \/ ReturnFilterCloseLines

\* analyzeComposition on small rasters only
NextSmallComposition ==
    \/ CallAnalyzeSmallComposition
    \/ StepGridAlignment
    \/ StepVisualHierarchy
    \/ StepBalance
    \/ StepSpacing
    \/ SpinSpacing
    \/ AdvanceSpacing
    \/ StepAlignmentScore
    \/ StepCompositionScore
    \/ ReturnComposition

(***************************************************************************)
(* DesignAnalysisTools (tools/design-analysis/index.ts) and ImageHandler   *)
(* (utils/image-handler.ts)                                                *)
(*                                                                         *)
(* calculateOverallScore multiplies and adds IEEE-754 doubles, and 0.30    *)
(* and 0.20 are not binary fractions, so the model keeps these doubles     *)
(* exactly.  A double x with 0 <= x < 128 that is a multiple of 2^-55 is   *)
(* the integer x * 2^55, written in base 2^16 with four digits, the least  *)
(* significant first.  Every product of a weight by a whole score up to    *)
(* 100, and every sum of such products, is of this kind before it is       *)
(* rounded to 53 significant bits.                                         *)
(***************************************************************************)
DigitBase == 65536

\* the doubles the literals 0.25, 0.30, 0.25 and 0.20 denote
weights ==
    [color |-> <<0, 0, 0, 32>>,
     composition |-> <<26214, 26214, 26214, 38>>,
     typography |-> <<0, 0, 0, 32>>,
     accessibility |-> <<39322, 39321, 39321, 25>>]

\* the same weights in hundredths, as the decimal literals read
WeightPercent == [color |-> 25, composition |-> 30, typography |-> 25, accessibility |-> 20]

DoubleZero == <<0, 0, 0, 0>>

\* x * k for a whole k, exactly
ScaleDigits(x, k) ==
    LET p1 == x[1] * k
        p2 == x[2] * k + p1 \div DigitBase
        p3 == x[3] * k + p2 \div DigitBase
        p4 == x[4] * k + p3 \div DigitBase
    IN  <<p1 % DigitBase, p2 % DigitBase, p3 % DigitBase, p4>>

\* x + y, exactly
AddDigits(x, y) ==
    LET s1 == x[1] + y[1]
        s2 == x[2] + y[2] + s1 \div DigitBase
        s3 == x[3] + y[3] + s2 \div DigitBase
        s4 == x[4] + y[4] + s3 \div DigitBase
    IN  <<s1 % DigitBase, s2 % DigitBase, s3 % DigitBase, s4>>

\* number of binary digits of n < 2^16
BitLength(n) == CHOOSE k \in 0..16 : n < 2 ^ k /\ (k = 0 \/ n >= 2 ^ (k - 1))

\* round to nearest, ties to even, at 53 significant bits: the top digit
\* holds bits 48 and up, so all but its 5 lowest positions' worth of bits
\* are dropped from the bottom digit
RoundToDouble(x) ==
    LET dropped == Max2(0, BitLength(x[4]) - 5)
        unit == 2 ^ dropped
        rest == x[1] % unit
        down == <<x[1] - rest, x[2], x[3], x[4]>>
        odd == (x[1] \div unit) % 2 = 1
    IN  IF dropped = 0 \/ rest = 0 THEN down
        ELSE IF 2 * rest > unit \/ (2 * rest = unit /\ odd)
        THEN AddDigits(down, <<unit, 0, 0, 0>>)
        ELSE down

\* score * weight
DoubleTimes(score, weight) == RoundToDouble(ScaleDigits(weight, score))

\* totalScore += ...
DoublePlus(x, y) == RoundToDouble(AddDigits(x, y))

\* Math.round: the nearest integer, a half goes up
MathRound(x) == (x[4] \div 128) + ((x[4] \div 64) % 2)

\* for (const [category, score] of Object.entries(scores)): color,
\* composition, typography, accessibility, in that order
calculateOverallScore(scores) ==
    LET afterColor == DoublePlus(DoubleZero, DoubleTimes(scores.color, weights.color))
        afterComposition ==
            DoublePlus(afterColor, DoubleTimes(scores.composition, weights.composition))
        afterTypography ==
            DoublePlus(afterComposition, DoubleTimes(scores.typography, weights.typography))
        totalScore ==
            DoublePlus(afterTypography, DoubleTimes(scores.accessibility, weights.accessibility))
    IN  MathRound(totalScore)

\* the weighted sum of the formula in real arithmetic, in hundredths
ExactWeightedSum(scores) ==
    WeightPercent.color * scores.color + WeightPercent.composition * scores.composition
        + WeightPercent.typography * scores.typography
        + WeightPercent.accessibility * scores.accessibility

Tag(condition, text) == IF condition THEN <<text>> ELSE <<>>

\* design_type is one of the strings of the enumeration or "undefined" when
\* the request leaves it out; target_audience is either not given or the set
\* of the words elderly, senior, children the string contains (in any case)
NoAudience == [given |-> FALSE, words |-> {}]
Audience(words) == [given |-> TRUE, words |-> words]

generateRecommendations(analysis) ==
    Tag(analysis.colorAnalysis.harmony_score < 70, "more harmonious palette")
    \o Tag(Len(analysis.colorAnalysis.contrast_issues) > 0, "improve text contrast")
    \o Tag(analysis.typographyAnalysis.font_count > 3, "reduce font families")
    \o Tag(analysis.typographyAnalysis.hierarchy_score < 60, "strengthen hierarchy")
    \o Tag(analysis.compositionAnalysis.score < 70, "improve layout structure")
    \o Tag(~analysis.compositionAnalysis.grid_alignment, "align to a grid")
    \o Tag(analysis.accessibilityAnalysis.score < 80, "review accessibility guidelines")
    \o (IF analysis.design_type = "web"
        THEN <<"responsive design", "mobile-first">>
        ELSE IF analysis.design_type = "mobile"
        THEN <<"touch targets 44px", "thumb-friendly navigation">>
        ELSE <<>>)
    \o (IF ~analysis.target_audience.given THEN <<>>
        ELSE Tag(analysis.target_audience.words \cap {"elderly", "senior"} # {},
                 "larger text for elderly users")
             \o Tag("children" \in analysis.target_audience.words,
                    "bright colors for children"))

(***************************************************************************)
(* ImageHandler.  A buffer is its length in bytes, whether sharp can read  *)
(* its metadata and re-encode it, and what the libraries of the analyzers  *)
(* give for the re-encoded image.                                          *)
(***************************************************************************)
MAX_SIZE_MB == 1
Megabyte == 1024 * 1024
DocumentedMaxSizeMB == 10   \* README: "Maximum image size: 10MB"

\* sizeInMB = buffer.length / (1024 * 1024); sizeInMB <= MAX_SIZE_MB
validateImageSize(buffer) == buffer.length <= MAX_SIZE_MB * Megabyte

\* what validateImage throws, or NoValue when it returns
validateImage(buffer) ==
    IF ~buffer.decodable
    THEN [message |-> "Invalid image data provided"]
    ELSE IF ~validateImageSize(buffer)
    THEN [message |-> "Image size exceeds limit", limitMB |-> MAX_SIZE_MB]
    ELSE NoValue

\* what optimizeImage throws, or NoValue when it resolves
optimizeImage(buffer) ==
    IF buffer.optimizable THEN NoValue ELSE [message |-> "Failed to optimize image"]

(***************************************************************************)
(* handleCritiqueDesign                                                    *)
(***************************************************************************)
Analyses == {"color", "composition", "typography", "accessibility"}

Pending == [pending |-> TRUE]

\* the scan of extractDominantColors over a decoded image: every 20th pixel
\* of every 20th row; a re-encoded JPEG has no transparency
ScanStride == 20
ScanPixels(image) ==
    LET columns == (image.width + ScanStride - 1) \div ScanStride
        rows == (image.height + ScanStride - 1) \div ScanStride
    IN  [k \in 1..(columns * rows) |->
            LET c == getPixelColor(image, ((k - 1) % columns) * ScanStride,
                                   ((k - 1) \div columns) * ScanStride)
            IN  <<c[1], c[2], c[3], 255>>]

\* design_type: string = 'web' replaces a missing argument
DesignTypeOrDefault(design_type) == IF design_type = "undefined" THEN "web" ELSE design_type

\* analyzeComposition once its loops have ended
LayoutAnalysisOf(image, design_type) ==
    With([gridAlignment |-> analyzeGridAlignment(image).result,
          balance |-> analyzeBalance(image),
          spacingConsistency |-> analyzeSpacing(image),
          alignmentScore |-> calculateAlignmentScore(image)],
         LAMBDA factors :
            [degraded |-> FALSE,
             score |-> calculateCompositionScore(factors),
             grid_alignment |-> factors.gridAlignment,
             visual_hierarchy |-> analyzeVisualHierarchy(image, design_type),
             balance |-> factors.balance,
             spacing_consistency |-> factors.spacingConsistency,
             alignment_score |-> factors.alignmentScore])

analyzeComposition(jimp, design_type) ==
    IF jimp.readable
    THEN LayoutAnalysisOf(jimp.image, DesignTypeOrDefault(design_type))
    ELSE DegradedLayout

\* whether the promise of analyzeComposition is ever settled
CompositionEnds(jimp) == IF jimp.readable THEN SpacingLoopsEnd(jimp.image) ELSE TRUE

\* what each analysis resolves to on optimizedBuffer, the re-encoded image
AnalysisOf(module, input) ==
    CASE module = "color" -> analyzeColors(input.image_data.optimized)
      [] module = "composition" ->
             analyzeComposition(input.image_data.optimized.jimp, input.design_type)
      [] module = "typography" -> analyzeTypography(input.image_data.optimized.ocr)
      [] module = "accessibility" ->
             analyzeAccessibility(
                 [readable |-> input.image_data.optimized.jimp.readable,
                  samples |-> IF input.image_data.optimized.jimp.readable
                              THEN ScanPixels(input.image_data.optimized.jimp.image)
                              ELSE <<>>,
                  close |-> input.image_data.optimized.close])

Fulfil_Shared(results, module, value) ==
    [results EXCEPT ![module] = value,
                    !["color"] = IF module = "accessibility" /\ @ # Pending
                                 THEN [@ EXCEPT !.harmony_score = 0]
                                 ELSE @]

\* the promise of one analysis is fulfilled with its value; the analyzers
\* have no fields and the buffer is only read
Fulfil(results, module, value) == [results EXCEPT ![module] = value]

\* await Promise.all([...])
AllFulfilled(results) == \A module \in Analyses : results[module] # Pending

\* the DesignCritique handleCritiqueDesign builds from the four results
BuildCritique(input, results) ==
    LET colorAnalysis == results.color
        compositionAnalysis == results.composition
        typographyAnalysis == results.typography
        accessibilityAnalysis == results.accessibility
    IN  [overall_score |->
             calculateOverallScore([color |-> colorAnalysis.harmony_score,
                                    composition |-> compositionAnalysis.score,
                                    typography |-> typographyAnalysis.hierarchy_score,
                                    accessibility |-> accessibilityAnalysis.score]),
         composition |-> [f \in DOMAIN compositionAnalysis \ {"degraded"} |->
                             compositionAnalysis[f]],
         color_analysis |-> colorAnalysis,
         typography |-> [font_count |-> typographyAnalysis.font_count,
                         hierarchy_score |-> typographyAnalysis.hierarchy_score,
                         readability_score |-> typographyAnalysis.readability_score,
                         issues |-> typographyAnalysis.issues],
         accessibility |-> [score |-> accessibilityAnalysis.score,
                            issues |-> accessibilityAnalysis.issues,
                            recommendations |-> accessibilityAnalysis.recommendations],
         recommendations |->
             generateRecommendations([colorAnalysis |-> colorAnalysis,
                                      compositionAnalysis |-> compositionAnalysis,
                                      typographyAnalysis |-> typographyAnalysis,
                                      accessibilityAnalysis |-> accessibilityAnalysis,
                                      design_type |-> input.design_type,
                                      target_audience |-> input.target_audience])]

\* the catch of the handler: "Design analysis failed: " + error.message
ErrorResult_Plain(error) == [isError |-> FALSE, error |-> error]

ErrorResult(error) == [isError |-> TRUE, error |-> error]

(***************************************************************************)
(* The critique_design requests of the model                               *)
(***************************************************************************)
ImageLengths ==
    {Megabyte \div 2, MAX_SIZE_MB * Megabyte, MAX_SIZE_MB * Megabyte + 1, 2 * Megabyte,
     DocumentedMaxSizeMB * Megabyte, DocumentedMaxSizeMB * Megabyte + 1}

CritiqueColorViews ==
    {[vibrant |-> [throws |-> TRUE, swatches |-> <<>>], raw |-> [throws |-> TRUE, data |-> <<>>]],
     [vibrant |-> [throws |-> FALSE, swatches |-> <<Red, Cyan>>],
      raw |-> [throws |-> FALSE, data |-> RawData(<<Red, Black>>)]],
     [vibrant |-> [throws |-> FALSE, swatches |-> <<Black>>],
      raw |-> [throws |-> TRUE, data |-> <<>>]]}

CritiqueJimpViews ==
    {[readable |-> FALSE, image |-> NoValue]}
    \cup {[readable |-> TRUE, image |-> image] :
             image \in {Raster(MaxSmallDim, MaxSmallDim - 1, White, White, {}, {}),
                        Raster(MaxSmallDim - 3, MaxSmallDim, Black, Black, {}, {})}}

CritiqueOcrViews ==
    {[throws |-> TRUE, words |-> <<>>],
     [throws |-> FALSE, words |-> <<>>],
     [throws |-> FALSE, words |-> <<Heading40, Body12>>]}

\* an image crossed by two black lines each way, whose palette is black and white
LinedBuffer ==
    [vibrant |-> [throws |-> FALSE, swatches |-> <<Black, White>>],
     raw |-> [throws |-> TRUE, data |-> <<>>],
     jimp |-> [readable |-> TRUE,
               image |-> Raster(LargeDim \div 2, LargeDim \div 2, White, Black, {2, 22}, {2, 22})],
     ocr |-> [throws |-> FALSE, words |-> <<Heading40, Body12>>],
     close |-> NoneClose]

OptimizedBuffers ==
    {[vibrant |-> color.vibrant, raw |-> color.raw, jimp |-> jimp, ocr |-> ocr,
      close |-> NoneClose] :
        color \in CritiqueColorViews, jimp \in CritiqueJimpViews, ocr \in CritiqueOcrViews}

PlainBuffer ==
    [vibrant |-> [throws |-> TRUE, swatches |-> <<>>],
     raw |-> [throws |-> TRUE, data |-> <<>>],
     jimp |-> [readable |-> FALSE, image |-> NoValue],
     ocr |-> [throws |-> TRUE, words |-> <<>>],
     close |-> NoneClose]

CritiqueOptions ==
    {[design_type |-> "web", target_audience |-> NoAudience],
     [design_type |-> "undefined", target_audience |-> Audience({"senior", "children"})],
     [design_type |-> "mobile", target_audience |-> Audience({})]}

\* a buffer sharp cannot read has nothing behind it; one it cannot re-encode
\* neither
BrokenImages ==
    {[length |-> n, decodable |-> d, optimizable |-> FALSE, optimized |-> NoValue] :
        n \in ImageLengths, d \in BOOLEAN}

Sound(length, optimized) ==
    [length |-> length, decodable |-> TRUE, optimizable |-> TRUE, optimized |-> optimized]

\* every length with one image, and one length with every image
SoundImages ==
    {Sound(n, PlainBuffer) : n \in ImageLengths}
    \cup {Sound(Megabyte \div 2, b) : b \in OptimizedBuffers}

CritiqueRequests ==
    {[image_data |-> image, design_type |-> o.design_type,
      target_audience |-> o.target_audience] :
        image \in BrokenImages \cup SoundImages, o \in CritiqueOptions}
    \cup {[image_data |-> Sound(Megabyte \div 2, LinedBuffer), design_type |-> "web",
           target_audience |-> NoAudience]}

(***************************************************************************)
(* Actions of critique_design                                              *)
(***************************************************************************)
CritIdle ==
    /\ critPc = "idle"
    /\ critIn = NoValue
    /\ critResults = NoValue
    /\ critOrder = <<>>
    /\ critOut = NoValue

CallCritiqueDesign ==
    /\ critPc = "idle"
    /\ \E input \in CritiqueRequests :
          /\ critIn' = input
          /\ critPc' = "validate"
    /\ UNCHANGED <<critResults, critOrder, critOut, colorVars, typoVars, compVars>>

\* decodeBase64Image, then validateImage: a throw is caught by the handler
StepValidateImage ==
    /\ critPc = "validate"
    /\ LET error == validateImage(critIn.image_data)
       IN  IF error = NoValue
           THEN /\ critPc' = "optimize"
                /\ critOut' = critOut
           ELSE /\ critPc' = "done"
                /\ critOut' = ErrorResult(error)
    /\ UNCHANGED <<critIn, critResults, critOrder, colorVars, typoVars, compVars>>

StepOptimizeImage ==
    /\ critPc = "optimize"
    /\ LET error == optimizeImage(critIn.image_data)
       IN  IF error = NoValue
           THEN /\ critPc' = "start"
                /\ critOut' = critOut
           ELSE /\ critPc' = "done"
                /\ critOut' = ErrorResult(error)
    /\ UNCHANGED <<critIn, critResults, critOrder, colorVars, typoVars, compVars>>

\* the four calls inside Promise.all([...]): each returns its promise
StartAnalyses ==
    /\ critPc = "start"
    /\ critResults' = [module \in Analyses |-> Pending]
    /\ critOrder' = <<>>
    /\ critPc' = "analyses"
    /\ UNCHANGED <<critIn, critOut, colorVars, typoVars, compVars>>

FulfilAnalysis(module) ==
    /\ critPc = "analyses"
    /\ critResults[module] = Pending
    /\ critResults' = Fulfil(critResults, module, AnalysisOf(module, critIn))
    /\ critOrder' = Append(critOrder, module)
    /\ UNCHANGED <<critPc, critIn, critOut, colorVars, typoVars, compVars>>

FulfilColor == FulfilAnalysis("color")

\* on an image whose sampling loop never ends the promise stays pending
FulfilComposition ==
    /\ critPc = "analyses"
    /\ CompositionEnds(critIn.image_data.optimized.jimp)
    /\ FulfilAnalysis("composition")

FulfilTypography == FulfilAnalysis("typography")

FulfilAccessibility == FulfilAnalysis("accessibility")

\* the continuation after await Promise.all
Aggregate ==
    /\ critPc = "analyses"
    /\ AllFulfilled(critResults)
    /\ critOut' = [isError |-> FALSE, critique |-> BuildCritique(critIn, critResults)]
    /\ critPc' = "done"
    /\ UNCHANGED <<critIn, critResults, critOrder, colorVars, typoVars, compVars>>

ReturnCritique ==
    /\ critPc = "done"
    /\ critPc' = "idle"
    /\ critIn' = NoValue
    /\ critResults' = NoValue
    /\ critOrder' = <<>>
    /\ critOut' = NoValue
    /\ UNCHANGED <<colorVars, typoVars, compVars>>

(***************************************************************************)
(* calculateOverallScore on its own: the scores the four modules can hand  *)
(* to it                                                                   *)
(***************************************************************************)
HarmonyScores == {0, 60, 70, 80, 85, 90, 95, 100}
HierarchyScores == {0, 50, 70, 100}
ScoreSamples == {score \in 0..100 : score % 10 \in {0, 2, 7}}

ModuleScores ==
    [color : HarmonyScores, composition : ScoreSamples, typography : HierarchyScores,
     accessibility : ScoreSamples]

CallCalculateOverallScore ==
    /\ critPc = "idle"
    /\ \E scores \in ModuleScores :
          /\ critIn' = [scores |-> scores]
          /\ critOut' = [overall_score |-> calculateOverallScore(scores)]
    /\ critPc' = "done"
    /\ UNCHANGED <<critResults, critOrder, colorVars, typoVars, compVars>>

NextOverallScore ==
    \/ CallCalculateOverallScore
    \/ ReturnCritique

NextCritique ==
    \/ CallCritiqueDesign
    \/ StepValidateImage
    \/ StepOptimizeImage
    \/ StartAnalyses
    \/ FulfilColor
    \/ FulfilComposition
    \/ FulfilTypography
    \/ FulfilAccessibility
    \/ Aggregate
    \/ ReturnCritique

(***************************************************************************)
(* The request handler of registerTools: one call of any tool              *)
(***************************************************************************)
ImageTools ==
    {"critique_design", "analyze_color_scheme", "analyze_layout", "analyze_typography",
     "analyze_accessibility"}

ToolNames == ImageTools \cup {"check_color_contrast"}

RequestNames == ToolNames \cup {"resize_image"}

\* request.params.arguments left out of the request
AbsentArguments == [present |-> FALSE]

\* image_data that is no string has no replace method
NotAString == [isString |-> FALSE]

Encoded(buffer) == [isString |-> TRUE, decoded |-> buffer]

\* a buffer with what each library reads from it before and after optimizeImage
ToolBuffer(length, decodable, optimizable, original, optimized) ==
    [length |-> length, decodable |-> decodable, optimizable |-> optimizable,
     original |-> original, optimized |-> optimized]

ToolBuffers ==
    {ToolBuffer(Megabyte \div 2, FALSE, FALSE, NoValue, NoValue),
     ToolBuffer(MAX_SIZE_MB * Megabyte + 1, TRUE, TRUE, PlainBuffer, PlainBuffer),
     ToolBuffer(Megabyte \div 2, TRUE, FALSE, PlainBuffer, NoValue),
     ToolBuffer(Megabyte \div 2, TRUE, TRUE, PlainBuffer, LinedBuffer),
     ToolBuffer(MAX_SIZE_MB * Megabyte, TRUE, TRUE, LinedBuffer, PlainBuffer)}

ToolArguments ==
    {AbsentArguments}
    \cup {[present |-> TRUE, image_data |-> data, design_type |-> type,
           foreground |-> Black, background |-> background] :
             data \in {NotAString} \cup {Encoded(buffer) : buffer \in ToolBuffers},
             type \in {"undefined", "mobile"},
             background \in {White, Unparsable}}

\* what decodeBase64Image throws, or NoValue when it returns the buffer
decodeBase64Image(imageData) ==
    IF imageData.isString THEN NoValue ELSE [message |-> "Failed to decode base64 image"]

\* the analyzers each handler calls
ToolAnalyses(name) ==
    CASE name = "critique_design" -> Analyses
      [] name = "analyze_color_scheme" -> {"color"}
      [] name = "analyze_layout" -> {"composition"}
      [] name = "analyze_typography" -> {"typography"}
      [] name = "analyze_accessibility" -> {"accessibility"}

\* the buffer and design type each handler hands to its analyzers:
\* critique_design the optimized buffer, the others the decoded one
ToolAnalysisInput(name, arguments) ==
    [image_data |->
         [optimized |-> IF name = "critique_design"
                        THEN arguments.image_data.decoded.optimized
                        ELSE arguments.image_data.decoded.original],
     design_type |-> IF name = "analyze_layout" /\ arguments.design_type = "undefined"
                     THEN "web"
                     ELSE arguments.design_type]

Raised(code) == [raised |-> TRUE, code |-> code, payload |-> NoValue]

Returned(payload) == [raised |-> FALSE, code |-> "none", payload |-> payload]

CallTool ==
    /\ critPc = "idle"
    /\ \E name \in RequestNames, arguments \in ToolArguments :
          critIn' = [name |-> name, arguments |-> arguments]
    /\ critPc' = "dispatch"
    /\ UNCHANGED <<critResults, critOrder, critOut, colorVars, typoVars, compVars>>

\* switch (name); handleCritiqueDesign destructures its input before its try
DispatchTool ==
    /\ critPc = "dispatch"
    /\ IF critIn.name \notin ToolNames
       THEN /\ critOut' = Raised("MethodNotFound")
            /\ critPc' = "done"
       ELSE IF critIn.name = "critique_design" /\ ~critIn.arguments.present
       THEN /\ critOut' = Raised("TypeError")
            /\ critPc' = "done"
       ELSE /\ critOut' = critOut
            /\ critPc' = IF critIn.name = "check_color_contrast" THEN "contrast" ELSE "decode"
    /\ UNCHANGED <<critIn, critResults, critOrder, colorVars, typoVars, compVars>>

\* input.image_data, then ImageHandler.decodeBase64Image, inside the try
StepDecodeImage ==
    /\ critPc = "decode"
    /\ IF ~critIn.arguments.present
       THEN /\ critOut' = Returned(ErrorResult([message |-> "Cannot read properties of undefined"]))
            /\ critPc' = "done"
            /\ critOrder' = critOrder
       ELSE LET error == decodeBase64Image(critIn.arguments.image_data)
            IN  /\ critOrder' = Append(critOrder, "decode")
                /\ IF error = NoValue
                   THEN /\ critPc' = "validateImage"
                        /\ critOut' = critOut
                   ELSE /\ critPc' = "done"
                        /\ critOut' = Returned(ErrorResult(error))
    /\ UNCHANGED <<critIn, critResults, colorVars, typoVars, compVars>>

StepValidateTool ==
    /\ critPc = "validateImage"
    /\ critOrder' = Append(critOrder, "validate")
    /\ LET error == validateImage(critIn.arguments.image_data.decoded)
       IN  IF error = NoValue
           THEN /\ critPc' = IF critIn.name = "critique_design" THEN "optimizeImage"
                             ELSE "analyze"
                /\ critOut' = critOut
           ELSE /\ critPc' = "done"
                /\ critOut' = Returned(ErrorResult(error))
    /\ UNCHANGED <<critIn, critResults, colorVars, typoVars, compVars>>

StepOptimizeTool ==
    /\ critPc = "optimizeImage"
    /\ critOrder' = Append(critOrder, "optimize")
    /\ LET error == optimizeImage(critIn.arguments.image_data.decoded)
       IN  IF error = NoValue
           THEN /\ critPc' = "analyze"
                /\ critOut' = critOut
           ELSE /\ critPc' = "done"
                /\ critOut' = Returned(ErrorResult(error))
    /\ UNCHANGED <<critIn, critResults, colorVars, typoVars, compVars>>

\* the analyzer calls of the handler, awaited
StepAnalyzeTool ==
    /\ critPc = "analyze"
    /\ critOrder' = Append(critOrder, "analyze")
    /\ critResults' =
           [module \in ToolAnalyses(critIn.name) |->
               AnalysisOf(module, ToolAnalysisInput(critIn.name, critIn.arguments))]
    /\ critPc' = "respond"
    /\ UNCHANGED <<critIn, critOut, colorVars, typoVars, compVars>>

\* return { content: [{ type: 'text', text: JSON.stringify(result) }] }
StepRespondTool ==
    /\ critPc = "respond"
    /\ critOrder' = Append(critOrder, "respond")
    /\ critOut' = Returned([isError |-> FALSE, result |-> critResults])
    /\ critPc' = "done"
    /\ UNCHANGED <<critIn, critResults, colorVars, typoVars, compVars>>

StepCheckColorContrast ==
    /\ critPc = "contrast"
    /\ critOut' =
           IF critIn.arguments.present
           THEN Returned([isError |-> FALSE,
                          result |-> checkColorCombination(critIn.arguments.foreground,
                                                           critIn.arguments.background)])
           ELSE Returned(ErrorResult([message |-> "Cannot read properties of undefined"]))
    /\ critPc' = "done"
    /\ UNCHANGED <<critIn, critResults, critOrder, colorVars, typoVars, compVars>>

NextTools ==
    \/ CallTool
    \/ DispatchTool
    \/ StepDecodeImage
    \/ StepValidateTool
    \/ StepOptimizeTool
    \/ StepAnalyzeTool
    \/ StepRespondTool
    \/ StepCheckColorContrast
    \/ ReturnCritique

(***************************************************************************)
(* Specifications: the server answering calls of one module                *)
(***************************************************************************)
Init == InitColor /\ TypoIdle /\ CompIdle /\ CritIdle

SpecColor == Init /\ [][NextColor]_vars

SpecTypography == Init /\ [][NextTypography]_vars

SpecComposition == Init /\ [][NextComposition]_vars

\* A call of analyzeComposition runs to completion: Node executes each
\* statement of the call as soon as the previous one is done.
SpecCompositionScore == Init /\ [][NextCompositionScore]_vars

SpecLineMerge == Init /\ [][NextLineMerge]_vars

SpecCompositionFair ==
    Init /\ [][NextSmallComposition]_vars /\ WF_vars(NextSmallComposition)

SpecCritique == Init /\ [][NextCritique]_vars

SpecOverallScore == Init /\ [][NextOverallScore]_vars

SpecTools == Init /\ [][NextTools]_vars

(***************************************************************************)
(* Properties of the colour and contrast operations                        *)
(***************************************************************************)
HarmonyTypes ==
    {"complementary", "triadic", "analogous", "split_complementary", "mixed",
     "insufficient_colors"}

\* C5: analyzeColorHarmony returns a score in [0,100] and a type of the fixed
\* enumeration; the type is insufficient_colors, with score 0, exactly when
\* the palette has fewer than 2 colours.
C5_HarmonyRangeAndEnum ==
    colorOp = "analyzeColorHarmony" =>
        /\ colorOut.score \in 0..100
        /\ colorOut.harmony_type \in HarmonyTypes
        /\ Len(colorIn.colors) < 2 =>
              colorOut.harmony_type = "insufficient_colors" /\ colorOut.score = 0
        /\ Len(colorIn.colors) >= 2 => colorOut.harmony_type # "insufficient_colors"

C5_Witness ==
    /\ colorOp = "analyzeColorHarmony"
    /\ Len(colorIn.colors) = 1
    /\ colorOut.harmony_type = "insufficient_colors"

\* The shorter angular distance between two hues on the 0-360 circle.
ShortArc(h1, h2) == Min2(Abs(h1 - h2), 360 - Abs(h1 - h2))

\* Unordered pairs of palette entries whose hues are strictly between 170 and
\* 190 degrees apart on the circle.
OppositePairs(colors) ==
    LET objs == colorObjects(colors)
    IN  {p \in (1..Len(colors)) \X (1..Len(colors)) :
            /\ p[1] < p[2]
            /\ ShortArc(HueOrZero(objs[p[1]]), HueOrZero(objs[p[2]])) > 170
            /\ ShortArc(HueOrZero(objs[p[1]]), HueOrZero(objs[p[2]])) < 190}

\* C6: a palette of at least 2 colours is complementary iff some unordered
\* pair has a circular hue difference strictly between 170 and 190 degrees;
\* the score is then min(85 + 5 x pairs, 100), and (red, cyan) scores >= 90.
C6_ComplementaryIffOppositePair ==
    (colorOp = "analyzeColorHarmony" /\ Len(colorIn.colors) >= 2) =>
        LET k == Cardinality(OppositePairs(colorIn.colors))
        IN  /\ colorOut.harmony_type = "complementary" <=> k > 0
            /\ k > 0 => colorOut.score = Min2(85 + 5 * k, 100)
            /\ colorIn.colors = <<Red, Cyan>> =>
                  colorOut.harmony_type = "complementary" /\ colorOut.score >= 90

C6_Witness ==
    /\ colorOp = "analyzeColorHarmony"
    /\ colorIn.colors = <<Red, Teal185>>
    /\ colorOut.harmony_type = "complementary"
    /\ colorOut.score = 90

IsContrastCall == colorOp \in {"checkAccessibility", "check_color_contrast"}

\* C7: the contrast ratio, the pass flags and the compliance level are the
\* same when foreground and background are exchanged, for valid and invalid
\* colours alike.
C7_ContrastSymmetric ==
    /\ colorOp = "checkAccessibility" =>
          colorOut = checkAccessibility(colorIn.background, colorIn.foreground)
    /\ colorOp = "check_color_contrast" =>
          colorOut.content = checkColorCombination(colorIn.background, colorIn.foreground)

C7_Witness ==
    /\ colorOp = "checkAccessibility"
    /\ ChromaParses(colorIn.foreground)
    /\ ChromaParses(colorIn.background)
    /\ Luminance(colorIn.foreground) > Luminance(colorIn.background)
    /\ colorOut.contrast_ratio > 1000

\* C8 (as claimed): every contrast operation returns ratio 1 when either
\* colour is invalid, the Color Module primitive and the check_color_contrast
\* tool alike.
C8_InvalidColorGivesRatioOne ==
    (IsContrastCall /\ ~(ChromaParses(colorIn.foreground) /\ ChromaParses(colorIn.background))) =>
        /\ colorOp = "checkAccessibility" => colorOut.contrast_ratio = 1000
        /\ colorOp = "check_color_contrast" =>
              ~colorOut.isError /\ colorOut.content.ratio = 1000

FlagsMatchRatio(ratio, aa, aaa) ==
    /\ aa <=> ratio >= 4500
    /\ aaa <=> ratio >= 7000
    /\ aaa => aa

\* C9: in every contrast check passes_aa holds iff ratio >= 4.5 and
\* passes_aaa iff ratio >= 7; the level is AAA if passes_aaa, AA if only
\* passes_aa, fail otherwise; (black, white) has ratio 21 and both flags.
C9_FlagsFollowRatio ==
    /\ colorOp = "checkAccessibility" =>
          /\ FlagsMatchRatio(colorOut.contrast_ratio, colorOut.wcag_aa, colorOut.wcag_aaa)
          /\ colorOut.wcag_level = "AAA" <=> colorOut.wcag_aaa
          /\ colorOut.wcag_level = "AA" <=> (colorOut.wcag_aa /\ ~colorOut.wcag_aaa)
          /\ colorOut.wcag_level = "fail" <=> ~colorOut.wcag_aa
          /\ (colorIn.foreground = Black /\ colorIn.background = White) =>
                colorOut.contrast_ratio = 21000 /\ colorOut.wcag_aa /\ colorOut.wcag_aaa
    /\ colorOp = "analyzeAccessibility" =>
          \A i \in 1..Len(colorOut.contrast_checks) :
              FlagsMatchRatio(colorOut.contrast_checks[i].ratio,
                              colorOut.contrast_checks[i].passes_aa,
                              colorOut.contrast_checks[i].passes_aaa)
    /\ colorOp = "check_color_contrast" =>
          FlagsMatchRatio(colorOut.content.ratio, colorOut.content.passes_aa,
                          colorOut.content.passes_aaa)

C9_Witness ==
    /\ colorOp = "checkAccessibility"
    /\ colorIn.foreground = Black
    /\ colorIn.background = White
    /\ colorOut.wcag_level = "AAA"

\* The last two accessibility analyses are full results over check lists of
\* the same size, with the same number of AAA passes, the same mean-ratio
\* bonus and the same three deficiency flags.
ComparableAccessibility ==
    /\ colorOp = "analyzeAccessibility"
    /\ ~colorOut.degraded
    /\ "score" \in DOMAIN accPrev
    /\ AccSummary(colorOut).n = accPrev.n
    /\ AccSummary(colorOut).aaa = accPrev.aaa
    /\ AccSummary(colorOut).bonus = accPrev.bonus
    /\ AccSummary(colorOut).flags = accPrev.flags

\* C4: all else equal, the accessibility score of the check list with more
\* AA passes is at least the score of the list with fewer.
C4_ScoreMonotoneInAA ==
    (ComparableAccessibility /\ AccSummary(colorOut).aa >= accPrev.aa) =>
        colorOut.score >= accPrev.score

C4_Witness ==
    /\ ComparableAccessibility
    /\ AccSummary(colorOut).aa > accPrev.aa
    /\ colorOut.score > accPrev.score

(***************************************************************************)
(* Properties of the typography analysis                                   *)
(***************************************************************************)
\* C3: with no valid text box (none recognised, or none above confidence 30)
\* the typography result is computed, not degraded, and has font_count 0,
\* hierarchy_score 0 and readability_score 0.
C3_EmptyTextBoxesGiveZeros ==
    (typoPhase = "done" /\ ~typoIn.throws /\ extractTextRegions(typoIn) = <<>>) =>
        /\ ~typoOut.degraded
        /\ typoOut.font_count = 0
        /\ typoOut.hierarchy_score = 0
        /\ typoOut.readability_score = 0

C3_Witness ==
    /\ typoPhase = "done"
    /\ ~typoIn.throws
    /\ Len(typoIn.words) > 0
    /\ typoOut.text_regions = <<>>
    /\ typoOut.font_count = 0

\* The input of scenario 4: exactly two valid boxes, of heights 40 and 12.
TwoBoxes40And12 ==
    /\ typoPhase = "done"
    /\ ~typoIn.throws
    /\ typoIn.words = <<Heading40, Body12>>

\* C10 (as claimed): for two boxes of heights 40 and 12 the hierarchy score
\* is at least 50 and both the size-distinction bonus (+30) and the
\* sparse-largest bonus (+20) are awarded.
C10_SparseLargestAwarded ==
    TwoBoxes40And12 =>
        /\ typoOut.hierarchy_score >= 50
        /\ SizeDistinctionPoints(typoOut.text_regions) = 30
        /\ SparseLargestPoints(typoOut.text_regions) = 20

\* C10 (amended): for two boxes of heights 40 and 12 the hierarchy score is
\* exactly 50: the size-distinction bonus (+30) and the size-progression
\* bonus (+20) are awarded, the sparse-largest bonus is not (the largest
\* size covers 1 of 2 boxes, 50%).
C10_ScoreFiftyWithoutSparse ==
    TwoBoxes40And12 =>
        /\ typoOut.hierarchy_score = 50
        /\ SizeDistinctionPoints(typoOut.text_regions) = 30
        /\ ProgressionPoints(typoOut.text_regions) = 20
        /\ SparseLargestPoints(typoOut.text_regions) = 0

C10_Witness ==
    /\ TwoBoxes40And12
    /\ Len(typoOut.text_regions) = 2
    /\ typoOut.hierarchy_score = 50

(***************************************************************************)
(* Properties of the composition analysis                                  *)
(***************************************************************************)
\* analyzeGridAlignment has returned in the call in flight
GridAlignmentKnown ==
    \/ compPc \in {"visualHierarchy", "balance", "spacing", "alignmentScore", "score"}
    \/ (compPc = "done" /\ compIn.readable)

\* analyzeBalance has returned in the call in flight
BalanceKnown ==
    \/ compPc \in {"spacing", "alignmentScore", "score"}
    \/ (compPc = "done" /\ compIn.readable)

\* analyzeComposition has returned the result it computed
LayoutReturned == compPc = "done" /\ compIn.readable

\* C1 (as claimed): the result returned for a raster whose pixels are all
\* identical has balance `symmetric`.
C1_UniformIsSymmetric ==
    (LayoutReturned /\ IsUniform(compIn.image)) => compOut.balance = "symmetric"

\* C1 (amended): for a raster whose pixels are all identical analyzeBalance
\* answers `radial`, except `asymmetric` for width 1 with an even height and
\* `symmetric` for height 1 with an even width; every result returned for
\* such a raster has balance `radial`.
C1_UniformIsRadial ==
    (BalanceKnown /\ IsUniform(compIn.image)) =>
        /\ compLocals.balance =
               IF compIn.image.width = 1 /\ compIn.image.height % 2 = 0 THEN "asymmetric"
               ELSE IF compIn.image.height = 1 /\ compIn.image.width % 2 = 0 THEN "symmetric"
               ELSE "radial"
        /\ LayoutReturned => compOut.balance = "radial"

C1_Witness ==
    /\ LayoutReturned
    /\ IsUniform(compIn.image)
    /\ compOut.balance = "radial"

\* the standard deviation of the gaps between consecutive lines is strictly
\* below 30% of their mean: with n gaps g of sum s, the sum of (n*g - s)^2
\* is below 0.09 * n * s^2
GapsDeviateBelow30Percent(lines) ==
    LET n == Len(lines) - 1
        s == lines[Len(lines)] - lines[1]
        gap(i) == lines[i + 1] - lines[i]
    IN  100 * SumRange(LAMBDA i : (n * gap(i) - s) * (n * gap(i) - s), 1, n) < 9 * n * s * s

\* C2: grid_alignment is false whenever the merged vertical or the merged
\* horizontal line set has fewer than 3 members; it is true only if both
\* have at least 3 and on each axis the standard deviation of consecutive
\* gaps is strictly below 30% of the mean gap.
C2_GridNeedsThreeLinesOnBothAxes ==
    GridAlignmentKnown =>
        /\ (Len(compLocals.verticalLines) < 3 \/ Len(compLocals.horizontalLines) < 3)
               => ~compLocals.gridAlignment
        /\ compLocals.gridAlignment =>
               /\ Len(compLocals.verticalLines) >= 3
               /\ Len(compLocals.horizontalLines) >= 3
               /\ GapsDeviateBelow30Percent(compLocals.verticalLines)
               /\ GapsDeviateBelow30Percent(compLocals.horizontalLines)
        /\ LayoutReturned => compOut.grid_alignment = compLocals.gridAlignment

C2_Witness ==
    /\ LayoutReturned
    /\ compOut.grid_alignment
    /\ Len(compLocals.verticalLines) >= 3
    /\ Len(compLocals.horizontalLines) >= 3

(***************************************************************************)
(* Properties of the orchestration                                         *)
(***************************************************************************)
OverallScoreComputed == critPc = "done" /\ "scores" \in DOMAIN critIn

\* C11: the overall score equals round(0.25*color_harmony + 0.30*composition
\* + 0.25*typography_hierarchy + 0.20*accessibility), the weights summing to
\* 1, and is an integer of [0,100] whenever the four module scores are in
\* [0,100].
C11_OverallScoreIsRoundedWeightedSum ==
    OverallScoreComputed =>
        /\ WeightPercent.color + WeightPercent.composition + WeightPercent.typography
               + WeightPercent.accessibility = 100
        /\ critOut.overall_score = RoundRatio(ExactWeightedSum(critIn.scores), 100)
        /\ critOut.overall_score \in 0..100

CritiqueReturned == critPc = "done" /\ ~critOut.isError

\* C12: in critique_design the four analyses are started together on the same
\* buffer, the overall score and the recommendations are computed only after
\* all four have completed, and whatever the order in which they complete
\* the aggregated critique is the same: the one built from what each
\* analysis gives for the request's buffer.
C12_CritiqueIndependentOfCompletionOrder ==
    /\ critPc = "analyses" =>
           /\ DOMAIN critResults = Analyses
           /\ {critOrder[i] : i \in 1..Len(critOrder)}
                  = {module \in Analyses : critResults[module] # Pending}
    /\ CritiqueReturned =>
           /\ {critOrder[i] : i \in 1..Len(critOrder)} = Analyses
           /\ \A module \in Analyses : critResults[module] # Pending
           /\ critOut.critique =
                  BuildCritique(critIn, [module \in Analyses |-> AnalysisOf(module, critIn)])

\* a critique whose analyses completed in the reverse of the order they
\* were started in, the colour analysis last
C12_Witness ==
    /\ CritiqueReturned
    /\ critOrder = <<"accessibility", "typography", "composition", "color">>
    /\ critOut.critique.color_analysis.harmony_score > 0
    /\ critOut.critique.overall_score > 0

RejectedForSize ==
    /\ critPc = "done"
    /\ critOut.isError
    /\ critOut.error.message = "Image size exceeds limit"

RejectedAsInvalid ==
    /\ critPc = "done"
    /\ critOut.isError
    /\ critOut.error.message = "Invalid image data provided"

\* C13: image validation accepts every decodable image of at most 10 MB and
\* rejects, with an error naming the limit, only images larger than 10 MB.
C13_ValidationLimitIsTenMegabytes ==
    critPc \notin {"idle", "validate"} =>
        /\ (critIn.image_data.decodable
                /\ critIn.image_data.length <= DocumentedMaxSizeMB * Megabyte)
               => ~RejectedForSize /\ ~RejectedAsInvalid
        /\ RejectedForSize =>
               /\ critIn.image_data.length > DocumentedMaxSizeMB * Megabyte
               /\ critOut.error.limitMB = DocumentedMaxSizeMB

(***************************************************************************)
(* Properties of extractPalette                                            *)
(***************************************************************************)
PaletteReturned == colorOp = "extractPalette"

\* C14: for every requested count >= 0 and on every path through
\* extractPalette (Vibrant swatches enough, swatches completed by frequency
\* sampling, Vibrant failed and frequency sampling alone, both failed and
\* the grey ramp), the returned palette has at most count colours.
C14_PaletteAtMostCount ==
    PaletteReturned => Len(colorOut.palette) <= colorIn.colorCount

\* the swatches were fewer than count and frequency sampling supplied colours
SeedCompleted ==
    /\ PaletteReturned
    /\ ~colorIn.imageBuffer.vibrant.throws
    /\ Len(colorIn.imageBuffer.vibrant.swatches) < colorIn.colorCount
    /\ ~colorIn.imageBuffer.raw.throws

\* C20: when the seed palette is shorter than count and is completed with
\* frequency-extracted colours, no colour appears twice in the returned
\* palette.
C20_CompletedPaletteHasNoDuplicates ==
    SeedCompleted =>
        \A i \in 1..Len(colorOut.palette) : \A j \in 1..Len(colorOut.palette) :
            colorOut.palette[i] = colorOut.palette[j] => i = j

(***************************************************************************)
(* Properties of the harmony rule order                                    *)
(***************************************************************************)
\* Unordered triples of palette entries whose three pairwise circular hue
\* gaps are each within 30 degrees of 120.
TriadTriples(colors) ==
    LET objs == colorObjects(colors)
        hue(i) == HueOrZero(objs[i])
        near120(i, j) == Abs(ShortArc(hue(i), hue(j)) - 120) < 30
    IN  {t \in (1..Len(colors)) \X (1..Len(colors)) \X (1..Len(colors)) :
            /\ t[1] < t[2]
            /\ t[2] < t[3]
            /\ near120(t[1], t[2])
            /\ near120(t[2], t[3])
            /\ near120(t[1], t[3])}

\* The non-circular hue range: largest hue minus smallest hue.
HueRange(colors) ==
    LET objs == colorObjects(colors)
        hues == {HueOrZero(objs[i]) : i \in 1..Len(colors)}
    IN  (CHOOSE h \in hues : \A g \in hues : g <= h)
            - (CHOOSE h \in hues : \A g \in hues : h <= g)

\* C19: the harmony rules apply in the fixed order complementary, triadic,
\* analogous (hue range < 60, score 80), split-complementary (hue range
\* < 120, score 70), mixed (score 60) and the first rule that matches gives
\* the result: a palette matching both the complementary and the triadic
\* rule is complementary, and a palette with hue range < 60 is analogous
\* only if it has no complementary pair and no triad.
C19_HarmonyRulesInFixedOrder ==
    (colorOp = "analyzeColorHarmony" /\ Len(colorIn.colors) >= 2) =>
        LET comp == OppositePairs(colorIn.colors) # {}
            triples == Cardinality(TriadTriples(colorIn.colors))
            range == HueRange(colorIn.colors)
            type == colorOut.harmony_type
        IN  /\ comp => type = "complementary"
            /\ (~comp /\ triples > 0) =>
                  type = "triadic" /\ colorOut.score = Min2(80 + 5 * triples, 100)
            /\ type = "analogous" <=> (~comp /\ triples = 0 /\ range < 60)
            /\ type = "analogous" => colorOut.score = 80
            /\ type = "split_complementary"
                  <=> (~comp /\ triples = 0 /\ range >= 60 /\ range < 120)
            /\ type = "split_complementary" => colorOut.score = 70
            /\ type = "mixed" <=> (~comp /\ triples = 0 /\ range >= 120)
            /\ type = "mixed" => colorOut.score = 60

\* a palette with a complementary pair (red, cyan) and a triad (red, green,
\* blue) is classified complementary
C19_Witness ==
    /\ colorOp = "analyzeColorHarmony"
    /\ colorIn.colors = <<Red, Green, Blue, Cyan>>
    /\ OppositePairs(colorIn.colors) # {}
    /\ TriadTriples(colorIn.colors) # {}
    /\ colorOut.harmony_type = "complementary"

(***************************************************************************)
(* Properties of the region partition and of termination                   *)
(***************************************************************************)
\* the pixels of a region: the rectangle (x, y, width, height)
RegionPixels(region) ==
    (region.x..(region.x + region.width - 1)) \X (region.y..(region.y + region.height - 1))

RasterPixels(image) == (0..(image.width - 1)) \X (0..(image.height - 1))

RegionsComputed ==
    /\ compPc \in {"balance", "spacing", "spacingAdvance", "alignmentScore", "score", "done"}
    /\ compIn.readable

\* C15: for every raster width and height (divisible by 3 or not) the nine
\* regions of the 3x3 partition are pairwise disjoint and their union is
\* exactly the set of all pixels of the raster.
C15_RegionsTileTheRaster ==
    RegionsComputed =>
        LET regions == divideIntoRegions(compIn.image)
        IN  /\ \A i \in 1..9 : \A j \in 1..9 :
                  i # j => RegionPixels(regions[i]) \cap RegionPixels(regions[j]) = {}
            /\ UNION {RegionPixels(regions[i]) : i \in 1..9} = RasterPixels(compIn.image)

CompositionStarted == compPc = "gridAlignment"

CompositionReturned == compPc = "done"

\* C18: for every raster with width > 0 and height > 0, rasters narrower or
\* shorter than 10 pixels included, composition analysis terminates: a call
\* that has started eventually returns a full or degraded result.
C18_CompositionTerminates == CompositionStarted ~> CompositionReturned

(***************************************************************************)
(* Properties of the failure policy                                        *)
(***************************************************************************)
\* text boxes were recognised and their overall bounding box has no area
ZeroAreaBoundingBox ==
    /\ typoPhase = "done"
    /\ ~typoIn.throws
    /\ extractTextRegions(typoIn) # <<>>
    /\ BoundingBoxArea(extractTextRegions(typoIn)) = 0

\* C17: when the text boxes are non-empty but their overall bounding box has
\* zero area, the typography module returns its fixed degraded result
\* (font_count 2, hierarchy 70, readability 75, one generic issue, no text
\* regions) instead of a computed result.
C17_ZeroAreaBoxGivesDegradedResult ==
    ZeroAreaBoundingBox => typoOut = DegradedTypography

\* the modules with the uniform failure policy
GuardedModules == {"composition", "accessibility", "typography"}

\* the first step of the module fails on the request's buffer: Jimp cannot
\* read it, sharp cannot give its raw pixels, the OCR throws
ModuleFails(module, input) ==
    IF module = "typography"
    THEN input.image_data.optimized.ocr.throws
    ELSE ~input.image_data.optimized.jimp.readable

DegradedResult(module) ==
    CASE module = "composition" -> DegradedLayout
      [] module = "accessibility" -> DegradedAccessibility
      [] module = "typography" -> DegradedTypography

\* every field of a composition result comes from the analysis of the image
CompositionIsComputed(r, image, design_type) ==
    /\ ~r.degraded
    /\ r.grid_alignment = analyzeGridAlignment(image).result
    /\ r.visual_hierarchy = analyzeVisualHierarchy(image, design_type)
    /\ r.balance = analyzeBalance(image)
    /\ r.spacing_consistency = analyzeSpacing(image)
    /\ r.alignment_score = calculateAlignmentScore(image)
    /\ r.score = calculateCompositionScore([gridAlignment |-> r.grid_alignment,
                                            balance |-> r.balance,
                                            spacingConsistency |-> r.spacing_consistency,
                                            alignmentScore |-> r.alignment_score])

\* every field of an accessibility result comes from the colours sampled
AccessibilityIsComputed(r, image) ==
    /\ ~r.degraded
    /\ r.contrast_checks = performContrastChecks(extractDominantColors(ScanPixels(image)))
    /\ r.color_blindness_simulation
           = analyzeColorBlindnessCompliance(extractDominantColors(ScanPixels(image)), NoneClose)
    /\ r.score = calculateAccessibilityScore(r.contrast_checks, r.color_blindness_simulation)
    /\ r.issues = identifyAccessibilityIssues(r.contrast_checks, r.color_blindness_simulation)
    /\ r.recommendations
           = generateAccessibilityRecommendations(r.contrast_checks,
                                                  r.color_blindness_simulation)

\* every field of a typography result comes from the recognised text boxes
TypographyIsComputed(r, ocr) ==
    /\ ~r.degraded
    /\ r.text_regions = extractTextRegions(ocr)
    /\ r.font_count = estimateFontCount(r.text_regions)
    /\ r.hierarchy_score = analyzeHierarchy(r.text_regions)
    /\ r.readability_score = analyzeReadability(r.text_regions)
    /\ r.issues = identifyIssues(r.text_regions, r.font_count, r.hierarchy_score,
                                 r.readability_score)

ModuleIsComputed(module, r, input) ==
    CASE module = "composition" ->
             CompositionIsComputed(r, input.image_data.optimized.jimp.image,
                                   DesignTypeOrDefault(input.design_type))
      [] module = "accessibility" ->
             AccessibilityIsComputed(r, input.image_data.optimized.jimp.image)
      [] module = "typography" ->
             TypographyIsComputed(r, input.image_data.optimized.ocr)

RawDataSampled == colorOp = "extractColorsFromRawData"

\* C21: frequency-based extraction stays inside the raster: for every buffer
\* length and channel layout (4 bytes per pixel, or 3) every byte index read
\* is below the buffer length, and each colour read is the (R, G, B) of one
\* single pixel, the pixels taken being every 10th one.
C21_SamplingStaysInsideRaster ==
    RawDataSampled =>
        /\ Len(colorOut.offsets) = (Len(colorIn.pixels) + SampleStride - 1) \div SampleStride
        /\ \A k \in 1..Len(colorOut.offsets) :
              /\ colorOut.offsets[k] + 2 < Len(colorIn.data)
              /\ (k - 1) * SampleStride + 1 <= Len(colorIn.pixels)
              /\ colorOut.triples[k] =
                     SubSeq(colorIn.pixels[(k - 1) * SampleStride + 1], 1, 3)

(***************************************************************************)
(* Properties of line merging                                              *)
(***************************************************************************)
LinesMerged == compPc = "filterCloseLines"

\* the positions of `kept` within `lines`, when kept is a subsequence of an
\* ascending list without repetitions: its members
IsSubsequenceOf(kept, lines) ==
    /\ \A i \in 1..Len(kept) : \E j \in 1..Len(lines) : lines[j] = kept[i]
    /\ \A i \in 1..(Len(kept) - 1) : kept[i] < kept[i + 1]

\* C22: merging an ascending list of detected lines returns a subsequence
\* that starts with the first detected line, whose consecutive members are
\* at least 20 px apart, and every dropped line lies less than 20 px after
\* the kept line that precedes it; merging the result again changes nothing.
C22_MergeKeepsFirstOfEachCluster ==
    (LinesMerged /\ Len(compIn.lines) > 0) =>
        LET lines == compIn.lines
            kept == compOut.filtered
            keptSet == {kept[i] : i \in 1..Len(kept)}
        IN  /\ IsSubsequenceOf(kept, lines)
            /\ kept[1] = lines[1]
            /\ \A i \in 1..(Len(kept) - 1) : kept[i + 1] - kept[i] >= 20
            /\ \A j \in 1..Len(lines) :
                  lines[j] \notin keptSet =>
                      \E i \in 1..Len(kept) :
                          /\ kept[i] < lines[j]
                          /\ \A h \in 1..Len(kept) : kept[h] < lines[j] => kept[h] <= kept[i]
                          /\ lines[j] - kept[i] < 20
            /\ filterCloseLines(kept, MinLineDistance) = kept

\* a line 19 px after the first is dropped, the next one, 20 px after the
\* first, is kept
C22_Witness ==
    /\ LinesMerged
    /\ compIn.lines = <<1, 20, 21, 42>>
    /\ compOut.filtered = <<1, 21, 42>>

(***************************************************************************)
(* Properties of the spacing analysis and of the scores                    *)
(***************************************************************************)
SpacingAnalysed ==
    /\ compPc \in {"alignmentScore", "score", "done"}
    /\ compIn.readable

\* C23: spacing analysis samples the raster on a 10x10 grid: for a raster of
\* width >= 10 and height >= 10 exactly 10 positions are visited per axis,
\* 100 points in all, and spacing is consistent iff strictly more than 60%
\* of them have a bright-pixel fraction strictly between 0.3 and 0.8.
C23_SpacingSamplesTenByTen ==
    (SpacingAnalysed /\ compIn.image.width >= 10 /\ compIn.image.height >= 10) =>
        LET xs == SamplePoints(compIn.image.width)
            ys == SamplePoints(compIn.image.height)
            wellSpaced == {p \in xs \X ys : checkLocalSpacing(compIn.image, p[1], p[2])}
        IN  /\ Cardinality(xs) = 10
            /\ Cardinality(ys) = 10
            /\ compLocals.spacingConsistency <=> 10 * Cardinality(wellSpaced) > 6 * 100

CompositionScored == compPc = "calculateCompositionScore"

\* C24: the non-degraded composition score equals round(25*[grid_alignment]
\* + b + 25*[spacing_consistency] + alignment_score/100*25) with b = 25 for
\* symmetric, 23 for radial, 20 for asymmetric; it lies in [20,100] and is
\* at least 20 even when no structure at all is detected.
C24_CompositionScoreFormula ==
    CompositionScored =>
        LET b == IF compIn.balance = "symmetric" THEN 25
                 ELSE IF compIn.balance = "radial" THEN 23 ELSE 20
            quarters == 4 * ((IF compIn.gridAlignment THEN 25 ELSE 0) + b
                             + (IF compIn.spacingConsistency THEN 25 ELSE 0))
                        + compIn.alignmentScore
        IN  /\ 4 * compOut.score - 2 <= quarters
            /\ quarters < 4 * compOut.score + 2
            /\ compOut.score \in 20..100
            /\ (~compIn.gridAlignment /\ ~compIn.spacingConsistency
                    /\ compIn.alignmentScore = 0) => compOut.score >= 20

\* nothing detected: no grid, asymmetric, no consistent spacing, alignment 0
C24_Witness ==
    /\ CompositionScored
    /\ compIn = [gridAlignment |-> FALSE, balance |-> "asymmetric",
                 spacingConsistency |-> FALSE, alignmentScore |-> 0]
    /\ compOut.score = 20

AlignmentScored == compPc = "score" /\ compIn.readable

\* the thirds intersections (as index pairs) whose local contrast exceeds 50
ThirdsHits(image) ==
    LET xs == <<image.width \div 3, (2 * image.width) \div 3>>
        ys == <<image.height \div 3, (2 * image.height) \div 3>>
    IN  {p \in (1..2) \X (1..2) : calculateLocalContrast(image, xs[p[1]], ys[p[2]]) > 3 * 50}

NearCommonRatio(image) ==
    \E r \in {<<16, 9>>, <<4, 3>>, <<3, 2>>, <<5, 4>>, <<1618, 1000>>} :
        NearRatio(image.width, image.height, r[1], r[2])

\* C25: the alignment score is +25 for >= 2 vertical lines, +25 for >= 2
\* horizontal lines, +20 for an aspect ratio within 0.1 of a common ratio,
\* plus 5 points per thirds intersection of local contrast > 50; the
\* rule-of-thirds term reaches its cap of 30 and the score reaches 100: they
\* do so when both axes have their lines, the ratio is a common one and
\* every thirds intersection has the contrast.
C25_AlignmentScoreReachesItsCaps ==
    AlignmentScored =>
        LET vertical == Len(detectVerticalLines(compIn.image)) >= 2
            horizontal == Len(detectHorizontalLines(compIn.image)) >= 2
            ratio == NearCommonRatio(compIn.image)
            hits == Cardinality(ThirdsHits(compIn.image))
            thirds == compLocals.alignmentScore - (IF vertical THEN 25 ELSE 0)
                          - (IF horizontal THEN 25 ELSE 0) - (IF ratio THEN 20 ELSE 0)
        IN  /\ thirds = Min2(5 * hits, 30)
            /\ (vertical /\ horizontal /\ ratio /\ hits = 4) =>
                  thirds = 30 /\ compLocals.alignmentScore = 100

(***************************************************************************)
(* Properties of the visual hierarchy list                                 *)
(***************************************************************************)
HierarchyListed == compPc = "balance" /\ compIn.readable

StrongFocalPoint == "Strong focal point detected in center"
BalancedComposition == "Balanced composition with no dominant focal point"
SecondaryEmphasis == "Secondary emphasis in center"

HintStrings ==
    {"Layout follows web design conventions",
     "Vertical flow optimized for mobile viewing",
     "Traditional print layout hierarchy"}

\* the nine regions with their contrast and brightness, heaviest first
RankedRegions(image) ==
    SortByVisualWeight(
        [i \in 1..9 |->
            [contrast |-> calculateRegionContrast(image, divideIntoRegions(image)[i]),
             brightness |-> calculateRegionBrightness(image, divideIntoRegions(image)[i])]])

\* the list without its hint: one of the two opening messages, then the
\* secondary-emphasis message if the second-ranked region has the contrast
OpeningMessages(image) ==
    LET ranked == RankedRegions(image)
    IN  <<IF ranked[1].contrast > 3 * 30 THEN StrongFocalPoint ELSE BalancedComposition>>
        \o (IF ranked[2].contrast > 3 * 20 THEN <<SecondaryEmphasis>> ELSE <<>>)

\* C26 (as claimed): for every raster and every accepted design type (web,
\* mobile, print, general) the visual-hierarchy list starts with exactly one
\* of the two opening messages, optionally followed by one secondary-emphasis
\* message, and ends with exactly one design-type hint.
C26_HierarchyEndsWithOneHint ==
    HierarchyListed =>
        LET list == compLocals.visualHierarchy
            opening == OpeningMessages(compIn.image)
        IN  /\ compIn.design_type \in DesignTypes
            /\ Len(list) = Len(opening) + 1
            /\ SubSeq(list, 1, Len(opening)) = opening
            /\ list[Len(list)] \in HintStrings

\* C26 (amended): the list starts with exactly one of the two opening
\* messages, optionally followed by one secondary-emphasis message; for web,
\* mobile and print it ends with that type's one hint, whatever the image,
\* and for general no hint is appended: the list is the opening alone.
C26_HintOnlyForWebMobilePrint ==
    HierarchyListed =>
        LET list == compLocals.visualHierarchy
            opening == OpeningMessages(compIn.image)
        IN  /\ SubSeq(list, 1, Len(opening)) = opening
            /\ compIn.design_type = "web" =>
                  list = Append(opening, "Layout follows web design conventions")
            /\ compIn.design_type = "mobile" =>
                  list = Append(opening, "Vertical flow optimized for mobile viewing")
            /\ compIn.design_type = "print" =>
                  list = Append(opening, "Traditional print layout hierarchy")
            /\ compIn.design_type = "general" => list = opening

\* a general design with a focal point and a secondary emphasis: two
\* messages and no hint
C26_Witness ==
    /\ HierarchyListed
    /\ compIn.design_type = "general"
    /\ compLocals.visualHierarchy = <<StrongFocalPoint, SecondaryEmphasis>>

(***************************************************************************)
(* Properties of the tool handlers                                         *)
(***************************************************************************)
ToolCalled == critPc \notin {"idle", "dispatch"}

ToolDone == critPc = "done"

\* the steps of an image-taking handler, in the order the claim gives them
HandlerSteps(name) ==
    IF name = "critique_design"
    THEN <<"decode", "validate", "optimize", "analyze", "respond">>
    ELSE <<"decode", "validate", "analyze", "respond">>

IsPrefixOf(s, t) == Len(s) <= Len(t) /\ SubSeq(t, 1, Len(s)) = s

\* the image of the request cannot be decoded, is rejected by validateImage
\* or, for critique_design, cannot be optimized
PreparationFails(input) ==
    IF ~input.arguments.present THEN FALSE
    ELSE IF ~input.arguments.image_data.isString THEN TRUE
    ELSE IF ~input.arguments.image_data.decoded.decodable THEN TRUE
    ELSE IF input.arguments.image_data.decoded.length > MAX_SIZE_MB * Megabyte THEN TRUE
    ELSE input.name = "critique_design" /\ ~input.arguments.image_data.decoded.optimizable

HierarchyScored ==
    typoPhase = "done" /\ ~typoIn.throws /\ Len(typoOut.text_regions) > 0

BoxHeights(textRegions) == {textRegions[i].height : i \in 1..Len(textRegions)}

SizeBins(textRegions) == {RoundTo(h, 2) : h \in BoxHeights(textRegions)}

\* C28: for every non-empty list of text boxes the size-progression bonus
\* (+20) is awarded, the score being the size-distinction points plus 20 plus
\* the sparse-largest points; the hierarchy score is at least 20, exactly 20
\* when all boxes share one height, at least 50 with 2 or more distinct size
\* bins, and never above 100.
C28_ProgressionBonusAlwaysAwarded ==
    HierarchyScored =>
        LET regions == typoOut.text_regions
            score == typoOut.hierarchy_score
        IN  /\ score = Min2(SizeDistinctionPoints(regions) + 20
                                + SparseLargestPoints(regions), 100)
            /\ score >= 20
            /\ Cardinality(BoxHeights(regions)) = 1 => score = 20
            /\ Cardinality(SizeBins(regions)) >= 2 => score >= 50
            /\ score <= 100

\* boxes of heights 12 and 13 fall into the neighbouring bins 12 and 14:
\* the smallest difference there is, and the bonus is awarded
C28_Witness ==
    /\ HierarchyScored
    /\ BoxHeights(typoOut.text_regions) = {12, 13}
    /\ typoOut.hierarchy_score = 50

(***************************************************************************)
(* Properties of the accessibility score                                   *)
(***************************************************************************)
AccessibilityScored == colorOp = "analyzeAccessibility" /\ ~colorOut.degraded

\* the distinct colours of the opaque sampled pixels
OpaqueColors(samples) ==
    {PixelHex(samples[i]) : i \in {k \in 1..Len(samples) : IsOpaque(samples[k])}}

\* C29: the non-degraded accessibility score never exceeds 80 (25 + 15 + 30
\* + 10), so the cap at 100 never binds; when fewer than 2 dominant colours
\* are found (a solid-colour raster) the contrast list is empty, all three
\* deficiency flags are true, and the score is exactly 30.
C29_ScoreAtMostEighty ==
    AccessibilityScored =>
        /\ colorOut.score <= 25 + 15 + 30 + 10
        /\ Cardinality(OpaqueColors(colorIn.samples)) < 2 =>
              /\ colorOut.contrast_checks = <<>>
              /\ colorOut.color_blindness_simulation.protanopia_safe
              /\ colorOut.color_blindness_simulation.deuteranopia_safe
              /\ colorOut.color_blindness_simulation.tritanopia_safe
              /\ colorOut.score = 30

\* a solid grey raster sampled at three pixels: one colour, no pair, score 30
C29_Witness ==
    /\ AccessibilityScored
    /\ colorIn.samples = <<<<102, 102, 102, 255>>, <<102, 102, 102, 255>>, <<102, 102, 102, 255>>>>
    /\ colorOut.score = 30

(***************************************************************************)
(* Properties of the contrast issues of the colour analysis                *)
(***************************************************************************)
ColorsAnalysed == colorOp = "analyzeColors"

\* the unordered pairs among the first min(4, palette length) entries
CheckedPairs(palette) ==
    {p \in (1..Len(palette)) \X (1..Len(palette)) :
        p[1] < p[2] /\ p[2] <= Min2(4, Len(palette))}

FailingPairs(palette) ==
    {p \in CheckedPairs(palette) :
        calculateContrast(palette[p[1]], palette[p[2]]) < 4500}

\* the failing pairs in the order of the double loop
FailingPairsInOrder(palette) ==
    LET pairs == FailingPairs(palette)
        lexBefore(p, q) == p[1] < q[1] \/ (p[1] = q[1] /\ p[2] < q[2])
        rank(p) == Cardinality({q \in pairs : lexBefore(q, p)})
    IN  [k \in 1..Cardinality(pairs) |-> CHOOSE p \in pairs : rank(p) = k - 1]

\* C30: the colour analysis checks exactly the unordered pairs among the
\* first min(4, palette length) palette entries, at most 6, each once, with
\* foreground index < background index: the issues are those pairs whose
\* ratio is < 4.5, in loop order; every issue has ratio < 4.5 and level
\* fail, none has level AA or AAA.
C30_IssuesAreTheFailingPairs ==
    ColorsAnalysed =>
        LET palette == colorOut.palette
            issues == colorOut.contrast_issues
            failing == FailingPairsInOrder(palette)
        IN  /\ Cardinality(CheckedPairs(palette)) <= 6
            /\ Len(issues) = Len(failing)
            /\ \A k \in 1..Len(issues) :
                  /\ issues[k].foreground = palette[failing[k][1]]
                  /\ issues[k].background = palette[failing[k][2]]
                  /\ issues[k].contrast_ratio < 4500
                  /\ issues[k].wcag_level = "fail"
                  /\ issues[k].wcag_level \notin {"AA", "AAA"}

\* a palette of five colours: the six pairs of its first four are checked,
\* the pair (1, 3) among the issues and no pair with the fifth
C30_Witness ==
    /\ ColorsAnalysed
    /\ Len(colorOut.palette) = 5
    /\ <<1, 3>> \in FailingPairs(colorOut.palette)
    /\ Len(colorOut.contrast_issues) = Cardinality(FailingPairs(colorOut.palette))
    /\ \E i \in 1..4 : calculateContrast(colorOut.palette[i], colorOut.palette[5]) < 4500

====
